---- MODULE Spec2Model ----
(***************************************************************************)
(* A model of the word-cloud generators of lfrbmw/word-cloud-mcp:          *)
(*   src/src/wordcloud/generator.ts   WordCloudGenerator (SVG)             *)
(*   src/unnamed/part_002             MultiFormatWordCloudGenerator        *)
(*   src/unnamed/part_004             the MCP server's dispatch            *)
(*                                                                         *)
(* Conventions.                                                            *)
(*  - A string is a sequence of code points (97 = a, 32 = space,           *)
(*    20013 = a CJK ideograph), so that the regular expressions of the     *)
(*    code (\s, the CJK range 4E00-9FFF) are tests on numbers.       *)
(*  - A length (pixels) is an integer number of 1/Unit pixel.  Unit = 120  *)
(*    makes fontSize/2, /8, /10, /12 and 0.6*fontSize, 1.2*fontSize exact  *)
(*    for an integer fontSize.  Irrational values (a square root, a sine)  *)
(*    are rounded down to that grid, where the code rounds to a double.    *)
(*    The two sizes of a font range (fontSize.min, fontSize.max) are in    *)
(*    1/Unit too, so that 12.5 pixels is a size a caller can give; every    *)
(*    other number of an options object is in pixels.                      *)
(*  - An optional field of an options object is a missing key of the      *)
(*    record; {...defaults, ...options} is options @@ defaults.            *)
(*  - An error message of the code (they are Chinese) is a string that     *)
(*    says the same in English, one string for each message of the code.   *)
(***************************************************************************)
EXTENDS Integers, Sequences, FiniteSets, TLC

VARIABLES
    pc,               \* where the call is
    args,             \* the call: [text, format, options]
    config,           \* generate: const config = {...defaultOptions, ...options}
    wordFrequencies,  \* generate: const wordFrequencies
    wordItems,        \* generate: const wordItems
    sortedWords,      \* smartLayoutWords: const sortedWords
    loopI,            \* smartLayoutWords: the loop variable i (0-based)
    occupiedAreas,    \* smartLayoutWords: const occupiedAreas
    layoutedWords,    \* smartLayoutWords: const layoutedWords
    svgContent,       \* generate: const svgContent
    fsDirs,           \* the file system: directories that exist
    fsFiles,          \* the file system: files that exist
    finalPath,        \* saveFile: let finalPath
    counter,          \* saveFile: let counter
    response,         \* what the call returned or threw
    ran,              \* the stages of the pipeline that have run in this call
    validation,       \* what validateOptions returned
    generator,        \* the WordCloudGenerator instance the calls share: its fields
    raised,           \* the error raised in the request handler, << >> if none
    cleaner,          \* the ContentCleaner instance of the server: its stop-word sets
    loopAngle,        \* generateAngles: the loop variable angle
    angleList         \* generateAngles: const angles

vars == << pc, args, config, wordFrequencies, wordItems, sortedWords, loopI,
           occupiedAreas, layoutedWords, svgContent, fsDirs, fsFiles,
           finalPath, counter, response, ran, validation, generator, raised,
          cleaner, loopAngle, angleList >>

----------------------------------------------------------------------------
(* Bounds of the model *)

\* longest text handed to generate, in characters
MaxTextLen == 4
\* longest token sequence handed to analyzeWordFrequency alone
MaxTokens == 6
\* how many distinct words beyond the cap of 120 the long texts reach
MaxOverCap == 2
\* longest ranked list handed to prepareWordItems alone
MaxRanked == 3
\* highest frequency in those lists
MaxCount == 3
\* longest word handed to escapeXml
MaxEscapeLen == 4
\* how many of the paths name.ext, name_1.ext, ... can exist before a save
MaxTaken == 3

\* the longest text given to ContentCleaner.clean
MaxCleanLen == 2

\* the most words of a text given to smartLayoutWords on its own
MaxLayoutTokens == 4

\* the highest coordinate of a corner of a region given to isOverlapping on
\* its own, and one more than its longest side
MaxCoord == 3

\* the highest rank (index) given to selectColorInternal and calculateAngle on
\* their own
MaxRank == 16

----------------------------------------------------------------------------
(* Arithmetic *)

Unit == 120

Min(a, b) == IF a < b THEN a ELSE b
Max(a, b) == IF a > b THEN a ELSE b
Abs(a) == IF a < 0 THEN -a ELSE a

\* floor(a / b) for b > 0 and any a (TLC's \div floors).
FloorDiv(a, b) == a \div b

\* Math.round on a value given in 1/Unit: the nearest integer, halves up.
MathRound(v) == FloorDiv(2 * v + Unit, 2 * Unit)

RECURSIVE ISqrtBetween(_, _, _)
ISqrtBetween(lo, hi, v) ==
    IF lo >= hi THEN lo
    ELSE LET mid == (lo + hi + 1) \div 2
         IN  IF mid * mid <= v THEN ISqrtBetween(mid, hi, v)
                               ELSE ISqrtBetween(lo, mid - 1, v)

\* floor(sqrt(v)) for 0 <= v <= 10^8
ISqrt(v) == ISqrtBetween(0, 10000, v)

RECURSIVE SumSeq(_)
SumSeq(s) == IF s = << >> THEN 0 ELSE Head(s) + SumSeq(Tail(s))

----------------------------------------------------------------------------
(* Strings *)

\* JavaScript's \s and String.prototype.trim: WhiteSpace and LineTerminator.
IsSpace(c) ==
    c \in {9, 10, 11, 12, 13, 32, 160, 5760, 8232, 8233, 8239, 8287, 12288, 65279}
    \/ (c >= 8192 /\ c <= 8202)

\* /[\u4e00-\u9fff]/.test(char)
IsCJK(c) == c >= 19968 /\ c <= 40959

RECURSIVE TrimLeft(_)
TrimLeft(s) ==
    IF s = << >> THEN s
    ELSE IF IsSpace(Head(s)) THEN TrimLeft(Tail(s)) ELSE s

RECURSIVE TrimRight(_)
TrimRight(s) ==
    IF s = << >> THEN s
    ELSE IF IsSpace(s[Len(s)]) THEN TrimRight(SubSeq(s, 1, Len(s) - 1)) ELSE s

\* text.trim()
Trim(s) == TrimLeft(TrimRight(s))

\* A maximal run of characters that are not white space starts at k.
IsTokenStart(s, k) == ~ IsSpace(s[k]) /\ (k = 1 \/ IsSpace(s[k - 1]))

\* where the run that starts at k ends
TokenEnd(s, k) ==
    CHOOSE e \in k..Len(s) :
        /\ e = Len(s) \/ IsSpace(s[e + 1])
        /\ \A j \in k..e : ~ IsSpace(s[j])

\* the runs that start in lo..hi, in order
RECURSIVE TokensIn(_, _, _)
TokensIn(s, lo, hi) ==
    IF lo > hi THEN << >>
    ELSE IF lo = hi
         THEN IF IsTokenStart(s, lo) THEN << SubSeq(s, lo, TokenEnd(s, lo)) >>
                                     ELSE << >>
         ELSE TokensIn(s, lo, (lo + hi) \div 2)
              \o TokensIn(s, (lo + hi) \div 2 + 1, hi)

\* text.split(/\s+/): the pieces between maximal runs of white space; a text
\* that starts or ends with white space gives an empty first or last piece,
\* and the empty text gives one empty piece.
SplitWhitespace(s) ==
    (IF s = << >> \/ IsSpace(s[1]) THEN << << >> >> ELSE << >>)
    \o TokensIn(s, 1, Len(s))
    \o (IF s # << >> /\ IsSpace(s[Len(s)]) THEN << << >> >> ELSE << >>)

\* array.filter(word => word.length > 0)
NonEmptyOnly(ws) == SelectSeq(ws, LAMBDA w : Len(w) > 0)

----------------------------------------------------------------------------
(* analyzeWordFrequency *)

\* A Map keeps its keys in insertion order, so frequencyMap is a sequence of
\* entries [word, frequency].  The callback of words.forEach on one word, from
\* an empty Map:
CountOne(word) ==
    IF Len(Trim(word)) > 0 THEN << [word |-> Trim(word), frequency |-> 1] >>
                           ELSE << >>

\* frequencyMap.get(w) || 0
FrequencyIn(entries, w) ==
    IF \E k \in 1..Len(entries) : entries[k].word = w
    THEN entries[CHOOSE k \in 1..Len(entries) : entries[k].word = w].frequency
    ELSE 0

\* The Map that holds `first` after the sets that produced `rest` from an empty
\* Map: a key that is there keeps its place and adds its count, a new key is
\* appended.
MapAfter(first, rest) ==
    [k \in 1..Len(first) |->
        [ word      |-> first[k].word,
          frequency |-> first[k].frequency + FrequencyIn(rest, first[k].word) ]]
    \o SelectSeq(rest, LAMBDA e : FrequencyIn(first, e.word) = 0)

\* the Map after words[lo..hi]
RECURSIVE CountWordsIn(_, _, _)
CountWordsIn(ws, lo, hi) ==
    IF lo > hi THEN << >>
    ELSE IF lo = hi THEN CountOne(ws[lo])
         ELSE MapAfter(CountWordsIn(ws, lo, (lo + hi) \div 2),
                       CountWordsIn(ws, (lo + hi) \div 2 + 1, hi))

\* words.forEach(...) then Array.from(frequencyMap.entries()).map(...)
CountWords(ws) == CountWordsIn(ws, 1, Len(ws))

\* A sort that is not stable: among equal frequencies the later entry is first.
PlaceTiesReversed(entries, k) ==
    1 + Cardinality({ j \in 1..Len(entries) :
                        \/ entries[j].frequency > entries[k].frequency
                        \/ entries[j].frequency = entries[k].frequency /\ j > k })

\* Where .sort((a, b) => b.frequency - a.frequency) puts entries[k]: after the
\* entries of higher frequency and, Array.prototype.sort being stable, after
\* the earlier entries of the same frequency.
SortedPlace(entries, k) ==
    1 + Cardinality({ j \in 1..Len(entries) :
                        \/ entries[j].frequency > entries[k].frequency
                        \/ entries[j].frequency = entries[k].frequency /\ j < k })

\* .sort((a, b) => b.frequency - a.frequency)
SortByFrequency(entries) ==
    LET place == [k \in 1..Len(entries) |-> SortedPlace(entries, k)]
    IN  [i \in 1..Len(entries) |->
            entries[CHOOSE k \in 1..Len(entries) : place[k] = i]]

\* the cap of .slice(0, 120)
MaxWords == 120

\* A slice that is one entry too long.
SliceToOneMore(s, n) == SubSeq(s, 1, Min(Len(s), n + 1))

\* .slice(0, n)
SliceTo(s, n) == SubSeq(s, 1, Min(Len(s), n))

analyzeWordFrequency(text) ==
    IF Len(text) = 0 \/ Len(Trim(text)) = 0 THEN << >>
    ELSE SliceTo(SortByFrequency(CountWords(NonEmptyOnly(SplitWhitespace(text)))),
                 MaxWords)

----------------------------------------------------------------------------
(* The configuration *)

\* './wordcloud.svg'
DefaultOutputPath ==
    << 46, 47, 119, 111, 114, 100, 99, 108, 111, 117, 100, 46, 115, 118, 103 >>

\* WordCloudGenerator.defaultOptions
defaultOptions ==
    [ theme      |-> "default",
      shape      |-> "rectangle",
      wordGap    |-> 3,
      fontSize   |-> [min |-> 16 * Unit, max |-> 66 * Unit],
      angleRange |-> [min |-> -45, max |-> 45],
      angleStep  |-> 15,
      outputPath |-> DefaultOutputPath,
      width      |-> 800,
      height     |-> 600 ]

\* WordCloudGenerator.colorThemes
colorThemes ==
    [ default |->
        << "#FF4444", "#2196F3", "#4CAF50", "#FF9800", "#9C27B0",
           "#00BCD4", "#795548", "#607D8B", "#E91E63", "#3F51B5",
           "#009688", "#FFC107", "#673AB7", "#FF5722", "#8BC34A",
           "#CDDC39", "#FF6B6B", "#4ECDC4", "#45B7D1", "#96CEB4" >>,
      colorful |->
        << "#FF1744", "#2979FF", "#00E676", "#FF6D00", "#D500F9",
           "#00E5FF", "#6D4C41", "#455A64", "#C51162", "#3D5AFE",
           "#1DE9B6", "#FFD600", "#651FFF", "#FF3D00", "#76FF03",
           "#C6FF00", "#FF4081", "#40C4FF", "#69F0AE", "#B2FF59" >>,
      warm |->
        << "#FF6B6B", "#FF8E53", "#FF6B9D", "#C44569", "#F8B500",
           "#FF7675", "#FD79A8", "#E17055", "#FDCB6E", "#E84393" >>,
      cool |->
        << "#0984e3", "#74b9ff", "#00b894", "#00cec9", "#6c5ce7",
           "#a29bfe", "#fd79a8", "#55a3ff", "#26de81", "#45aaf2" >>,
      nature |->
        << "#00b894", "#00cec9", "#55a3ff", "#fdcb6e", "#6c5ce7",
           "#fd79a8", "#e17055", "#81ecec", "#74b9ff", "#a29bfe" >>,
      business |->
        << "#2d3436", "#636e72", "#74b9ff", "#0984e3", "#00b894",
           "#fdcb6e", "#e17055", "#6c5ce7", "#fd79a8", "#55a3ff" >> ]

\* Object.keys(this.colorThemes)
getSupportedThemes == DOMAIN colorThemes

\* this.colorThemes[theme] || this.colorThemes.default
getThemeColors(theme) ==
    IF theme \in DOMAIN colorThemes THEN colorThemes[theme] ELSE colorThemes.default

\* the stop-word sets of a new ContentCleaner: the members made of the
\* characters of CleanChars
NewCleaner ==
    [ chineseStopWords |-> { << 25105 >>, << 25105, 20204 >> },
      englishStopWords |-> { << 105 >>, << 105, 115 >> } ]

\* new WordCloudGenerator(): the fields of the instance
NewGenerator == [defaultOptions |-> defaultOptions, colorThemes |-> colorThemes]

\* A merge into the shared defaults: Object.assign(this.defaultOptions, options).
AssignMerge(gen, options) ==
    [ config    |-> options @@ gen.defaultOptions,
      generator |-> [gen EXCEPT !.defaultOptions = options @@ gen.defaultOptions] ]

\* const config = { ...this.defaultOptions, ...options }: a new object with the
\* fields of both, and the instance as it was
SpreadMerge(gen, options) ==
    [ config    |-> options @@ gen.defaultOptions,
      generator |-> gen ]

\* { ...this.defaultOptions, ...options }
MergeOptions(defaults, options) == options @@ defaults

----------------------------------------------------------------------------
(* prepareWordItems *)

\* the scale of a square root: sqrt(n/d) is ISqrt(n * 10^8 / d) / 10^4
RootScale == 10000

\* Math.pow(normalizedFreq, 0.5), times RootScale, rounded down
ScaledFreq(frequency, minFreq, maxFreq) ==
    ISqrt(((frequency - minFreq) * RootScale * RootScale) \div (maxFreq - minFreq))

\* a font range in pixels
FontRange(min, max) == [min |-> min * Unit, max |-> max * Unit]

\* The font size in 1/Unit, from a range in 1/Unit.
calculateFontSize(frequency, minFreq, maxFreq, fontSizeRange) ==
    IF maxFreq = minFreq
    THEN FloorDiv(fontSizeRange.min + fontSizeRange.max, 2)
    ELSE LET sizeRange      == fontSizeRange.max - fontSizeRange.min
             calculatedSize == fontSizeRange.min
                               + FloorDiv(ScaledFreq(frequency, minFreq, maxFreq)
                                          * sizeRange, RootScale)
             maxAllowedSize == fontSizeRange.min + FloorDiv(sizeRange * 8, 10)
         IN  Min(calculatedSize, maxAllowedSize)

\* frequencyRatio = frequency / maxFreq compared with 0.8 and 0.5
selectColorInternal(colors, index, frequency, maxFreq) ==
    IF 10 * frequency > 8 * maxFreq
    THEN colors[(index % Min(5, Len(colors))) + 1]
    ELSE IF 10 * frequency > 5 * maxFreq
         THEN colors[(index % Min(10, Len(colors))) + 1]
         ELSE colors[(index % Len(colors)) + 1]

\* for (let angle = min; angle <= max; angle += angleStep) angles.push(angle)
\* (angleStep > 0: with angleStep <= 0 and min <= max the loop does not end)
RECURSIVE AnglesFrom(_, _, _)
AnglesFrom(angle, max, angleStep) ==
    IF angle <= max THEN << angle >> \o AnglesFrom(angle + angleStep, max, angleStep)
                    ELSE << >>

generateAngles(angleRange, angleStep) ==
    LET pushed == AnglesFrom(angleRange.min, angleRange.max, angleStep)
    IN  IF Len(pushed) > 0 THEN pushed ELSE << 0 >>

\* calculateAngle without the filter of the middle ranks
AngleChoicesUnfiltered(index, generated) ==
    IF index < 5 THEN {0}
    ELSE {generated[k] : k \in 1..Len(generated)}

\* The angles calculateAngle can return once generateAngles has returned
\* generated: Math.random picks any index of the list it indexes, and
\* smallAngles[...] || 0 is 0 when the filtered list is empty.
AngleChoices(index, generated) ==
    IF index < 5 THEN {0}
    ELSE IF index < 15
         THEN LET smallAngles == SelectSeq(generated, LAMBDA a : Abs(a) <= 30)
              IN  IF Len(smallAngles) = 0 THEN {0}
                  ELSE {smallAngles[k] : k \in 1..Len(smallAngles)}
         ELSE {generated[k] : k \in 1..Len(generated)}

calculateAngle(index, angleRange, angleStep) ==
    AngleChoices(index, generateAngles(angleRange, angleStep))

\* the scale of a sine or a cosine
TrigScale == 10000

\* Math.cos and Math.sin of a multiple of 15 degrees, times TrigScale
CosDeg(d) ==
    CASE d = 0 -> 10000 [] d = 15 -> 9659 [] d = 30 -> 8660 [] d = 45 -> 7071
      [] d = 60 -> 5000 [] d = 75 -> 2588 [] d = 90 -> 0

SinDeg(d) == CosDeg(90 - d)

\* one character's advance, fontSize in 1/Unit
CharAdvance(c, fontSize) ==
    IF IsCJK(c) THEN fontSize ELSE FloorDiv(fontSize * 6, 10)

estimateTextDimensions(text, fontSize, angle) ==
    LET baseWidth  == SumSeq([k \in 1..Len(text) |-> CharAdvance(text[k], fontSize)])
        baseHeight == FloorDiv(fontSize * 12, 10)
    IN  IF angle = 0
        THEN [width |-> baseWidth, height |-> baseHeight]
        ELSE LET d == Abs(angle)
             IN  [ width  |-> FloorDiv(baseWidth * CosDeg(d), TrigScale)
                              + FloorDiv(baseHeight * SinDeg(d), TrigScale),
                   height |-> FloorDiv(baseWidth * SinDeg(d), TrigScale)
                              + FloorDiv(baseHeight * CosDeg(d), TrigScale) ]

MaxFrequency(wf) ==
    CHOOSE m \in {wf[k].frequency : k \in 1..Len(wf)} :
        \A k \in 1..Len(wf) : wf[k].frequency <= m

MinFrequency(wf) ==
    CHOOSE m \in {wf[k].frequency : k \in 1..Len(wf)} :
        \A k \in 1..Len(wf) : wf[k].frequency >= m

\* The item of wordFrequencies[k] (index = k - 1), with the angle drawn for it.
\* fontSize is the rounded size; width and height come from the unrounded one.
PrepareItem(wf, k, cfg, angle) ==
    LET item       == wf[k]
        fontSize   == calculateFontSize(item.frequency, MinFrequency(wf),
                                        MaxFrequency(wf), cfg.fontSize)
        dimensions == estimateTextDimensions(item.word, fontSize, angle)
    IN  [ text      |-> item.word,
          frequency |-> item.frequency,
          fontSize  |-> MathRound(fontSize),
          color     |-> selectColorInternal(getThemeColors(cfg.theme), k - 1,
                                            item.frequency, MaxFrequency(wf)),
          angle     |-> angle,
          x         |-> 0,
          y         |-> 0,
          width     |-> dimensions.width,
          height    |-> dimensions.height ]

\* The lists prepareWordItems can return, one for every outcome of Math.random.
prepareWordItems(wf, cfg) ==
    IF Len(wf) = 0 THEN { << >> }
    ELSE LET choices == [k \in 1..Len(wf) |->
                            calculateAngle(k - 1, cfg.angleRange, cfg.angleStep)]
             all     == UNION {choices[k] : k \in 1..Len(wf)}
         IN  { [k \in 1..Len(wf) |-> PrepareItem(wf, k, cfg, angles[k])] :
                 angles \in {a \in [1..Len(wf) -> all] :
                                \A k \in 1..Len(wf) : a[k] \in choices[k]} }

----------------------------------------------------------------------------
(* smartLayoutWords *)

\* Math.max(8, ...): the smallest numAngles; the tables below hold 8 to 37
MinAngles == 8

\* Row numAngles - 7, entry i + 1, for angle = i * 2 * PI / numAngles:
\*   Math.cos(angle) * (1 + Math.sin(angle) * 0.1), times TrigScale
\*   Math.sin(angle) * (1 + Math.cos(angle) * 0.1), times TrigScale
SpiralXTable ==
    <<
      << 10000, 7571, 0, -7571, -10000, -6571, 0, 6571 >>,
      << 10000, 8153, 1907, -5433, -9718, -9076, -4567, 1565, 7168 >>,
      << 10000, 8566, 3384, -3384, -8566, -10000, -7615, -2796, 2796, 7615 >>,
      << 10000, 8867, 4532, -1564, -7044, -9865, -9325, -6054, -1282, 3776, 7958 >>,
      << 10000, 9093, 5433, 0, -5433, -9093, -10000, -8227, -4567, 0, 4567, 8227 >>,
      << 10000, 9266, 6148, 1325, -3878, -7981, -9942, -9477, -6989, -3214, 1086, 5213, 8443 >>,
      << 10000, 9401, 6722, 2442, -2442, -6722, -9401, -10000, -8619, -5747, -2008, 2008, 5747, 8619 >>,
      << 10000, 9507, 7189, 3384, -1149, -5433, -8566, -9985, -9578, -7615, -4567, -941, 2796, 6194, 8764 >>,
      << 10000, 9592, 7571, 4180, 0, -4180, -7571, -9592, -10000, -8885, -6571, -3473, 0, 3473, 6571, 8885 >>,
      << 10000, 9662, 7888, 4856, 1015, -3000, -6507, -8950, -10010, -9649, -8055, -5545, -2473, 831, 4058, 6892, 8988 >>,
      << 10000, 9718, 8153, 5433, 1907, -1907, -5433, -8153, -9718, -10000, -9076, -7168, -4567, -1565, 1565, 4567, 7168, 9076 >>,
      << 10000, 9765, 8376, 5927, 2693, -908, -4385, -7271, -9213, -10026, -9701, -8376, -6275, -3649, -743, 2217, 5012, 7407, 9151 >>,
      << 10000, 9804, 8566, 6353, 3384, 0, -3384, -6353, -8566, -9804, -10000, -9217, -7615, -5402, -2796, 0, 2796, 5402, 7615, 9217 >>,
      << 10000, 9837, 8728, 6722, 3993, 822, -2442, -5433, -7829, -9401, -10036, -9741, -8619, -6832, -4567, -2008, 673, 3313, 5747, 7797, 9274 >>,
      << 10000, 9865, 8867, 7044, 4532, 1564, -1564, -4532, -7044, -8867, -9865, -10000, -9325, -7958, -6054, -3776, -1282, 1282, 3776, 6054, 7958, 9325 >>,
      << 10000, 9889, 8988, 7324, 5009, 2234, -751, -3664, -6238, -8247, -9538, -10042, -9772, -8807, -7268, -5296, -3033, -614, 1835, 4192, 6327, 8100, 9369 >>,
      << 10000, 9909, 9093, 7571, 5433, 2838, 0, -2838, -5433, -7571, -9093, -9909, -10000, -9409, -8227, -6571, -4567, -2338, 0, 2338, 4567, 6571, 8227, 9409 >>,
      << 10000, 9927, 9185, 7789, 5811, 3384, 691, -2058, -4643, -6865, -8566, -9640, -10045, -9797, -8955, -7615, -5883, -3873, -1690, 565, 2796, 4906, 6791, 8341, 9445 >>,
      << 10000, 9942, 9266, 7981, 6148, 3878, 1325, -1325, -3878, -6148, -7981, -9266, -9942, -10000, -9477, -8443, -6989, -5213, -3214, -1086, 1086, 3214, 5213, 6989, 8443, 9477 >>,
      << 10000, 9955, 9337, 8153, 6451, 4324, 1907, -639, -3143, -5433, -7362, -8814, -9718, -10048, -9817, -9076, -7896, -6363, -4567, -2593, -523, 1565, 3597, 5493, 7168, 8535, 9506 >>,
      << 10000, 9966, 9401, 8306, 6722, 4730, 2442, 0, -2442, -4730, -6722, -8306, -9401, -9966, -10000, -9532, -8619, -7331, -5747, -3948, -2008, 0, 2008, 3948, 5747, 7331, 8619, 9532 >>,
      << 10000, 9976, 9457, 8443, 6967, 5098, 2933, 595, -1777, -4045, -6076, -7759, -9010, -9779, -10049, -9834, -9174, -8127, -6761, -5147, -3358, -1458, 487, 2418, 4270, 5980, 7479, 8695, 9556 >>,
      << 10000, 9985, 9507, 8566, 7189, 5433, 3384, 1149, -1149, -3384, -5433, -7189, -8566, -9507, -9985, -10000, -9578, -8764, -7615, -6194, -4567, -2796, -941, 941, 2796, 4567, 6194, 7615, 8764, 9578 >>,
      << 10000, 9992, 9552, 8677, 7389, 5739, 3799, 1664, -557, -2749, -4799, -6605, -8082, -9168, -9827, -10049, -9848, -9256, -8319, -7093, -5637, -4009, -2264, -456, 1365, 3147, 4841, 6390, 7739, 8827, 9598 >>,
      << 10000, 9999, 9592, 8777, 7571, 6018, 4180, 2142, 0, -2142, -4180, -6018, -7571, -8777, -9592, -9999, -10000, -9617, -8885, -7853, -6571, -5094, -3473, -1760, 0, 1760, 3473, 5094, 6571, 7853, 8885, 9617 >>,
      << 10000, 10005, 9629, 8867, 7737, 6273, 4532, 2587, 523, -1564, -3580, -5433, -7044, -8346, -9296, -9865, -10049, -9860, -9325, -8481, -7375, -6054, -4567, -2962, -1282, 428, 2128, 3776, 5328, 6738, 7958, 8939, 9633 >>,
      << 10000, 10010, 9662, 8950, 7888, 6507, 4856, 3000, 1015, -1015, -3000, -4856, -6507, -7888, -8950, -9662, -10010, -10000, -9649, -8988, -8055, -6892, -5545, -4058, -2473, -831, 831, 2473, 4058, 5545, 6892, 8055, 8988, 9649 >>,
      << 10000, 10015, 9691, 9025, 8026, 6722, 5156, 3384, 1475, -493, -2442, -4292, -5969, -7410, -8566, -9401, -9896, -10049, -9870, -9383, -8619, -7615, -6411, -5049, -3569, -2008, -404, 1209, 2796, 4321, 5747, 7035, 8144, 9033, 9664 >>,
      << 10000, 10019, 9718, 9093, 8153, 6920, 5433, 3742, 1907, 0, -1907, -3742, -5433, -6920, -8153, -9093, -9718, -10019, -10000, -9677, -9076, -8227, -7168, -5935, -4567, -3099, -1565, 0, 1565, 3099, 4567, 5935, 7168, 8227, 9076, 9677 >>,
      << 10000, 10023, 9743, 9156, 8269, 7103, 5690, 4075, 2313, 467, -1396, -3208, -4904, -6424, -7719, -8749, -9488, -9921, -10048, -9879, -9433, -8737, -7821, -6720, -5468, -4100, -2648, -1144, 382, 1901, 3383, 4797, 6111, 7292, 8304, 9115, 9690 >>
    >>

SpiralYTable ==
    <<
      << 0, 7571, 10000, 6571, 0, -6571, -10000, -7571 >>,
      << 0, 6920, 10019, 8227, 3099, -3099, -8227, -10019, -6920 >>,
      << 0, 6353, 9804, 9217, 5402, 0, -5402, -9217, -9804, -6353 >>,
      << 0, 5861, 9474, 9757, 7063, 2547, -2547, -7063, -9757, -9474, -5861 >>,
      << 0, 5433, 9093, 10000, 8227, 4567, 0, -4567, -8227, -10000, -9093, -5433 >>,
      << 0, 5059, 8697, 10047, 9019, 6135, 2161, -2161, -6135, -9019, -10047, -8697, -5059 >>,
      << 0, 4730, 8306, 9966, 9532, 7331, 3948, 0, -3948, -7331, -9532, -9966, -8306, -4730 >>,
      << 0, 4439, 7929, 9804, 9841, 8227, 5402, 1876, -1876, -5402, -8227, -9841, -9804, -7929, -4439 >>,
      << 0, 4180, 7571, 9592, 10000, 8885, 6571, 3473, 0, -3473, -6571, -8885, -10000, -9592, -7571, -4180 >>,
      << 0, 3949, 7235, 9351, 10049, 9355, 7499, 4817, 1657, -1657, -4817, -7499, -9355, -10049, -9351, -7235, -3949 >>,
      << 0, 3742, 6920, 9093, 10019, 9677, 8227, 5935, 3099, 0, -3099, -5935, -8227, -9677, -10019, -9093, -6920, -3742 >>,
      << 0, 3554, 6627, 8830, 9932, 9884, 8790, 6859, 4341, 1484, -1484, -4341, -6859, -8790, -9884, -9932, -8830, -6627, -3554 >>,
      << 0, 3384, 6353, 8566, 9804, 10000, 9217, 7615, 5402, 2796, 0, -2796, -5402, -7615, -9217, -10000, -9804, -8566, -6353, -3384 >>,
      << 0, 3229, 6099, 8306, 9649, 10047, 9532, 8227, 6303, 3948, 1343, -1343, -3948, -6303, -8227, -9532, -10047, -9649, -8306, -6099, -3229 >>,
      << 0, 3088, 5861, 8052, 9474, 10039, 9757, 8718, 7063, 4952, 2547, 0, -2547, -4952, -7063, -8718, -9757, -10039, -9474, -8052, -5861, -3088 >>,
      << 0, 2958, 5640, 7807, 9287, 9990, 9909, 9107, 7699, 5821, 3619, 1227, -1227, -3619, -5821, -7699, -9107, -9909, -9990, -9287, -7807, -5640, -2958 >>,
      << 0, 2838, 5433, 7571, 9093, 9909, 10000, 9409, 8227, 6571, 4567, 2338, 0, -2338, -4567, -6571, -8227, -9409, -10000, -9909, -9093, -7571, -5433, -2838 >>,
      << 0, 2728, 5240, 7344, 8896, 9804, 10043, 9639, 8663, 7214, 5402, 3339, 1129, -1129, -3339, -5402, -7214, -8663, -9639, -10043, -9804, -8896, -7344, -5240, -2728 >>,
      << 0, 2626, 5059, 7128, 8697, 9682, 10047, 9807, 9019, 7762, 6135, 4236, 2161, 0, -2161, -4236, -6135, -7762, -9019, -9807, -10047, -9682, -8697, -7128, -5059, -2626 >>,
      << 0, 2531, 4889, 6920, 8500, 9546, 10019, 9925, 9305, 8227, 6775, 5036, 3099, 1046, -1046, -3099, -5036, -6775, -8227, -9305, -9925, -10019, -9546, -8500, -6920, -4889, -2531 >>,
      << 0, 2442, 4730, 6722, 8306, 9401, 9966, 10000, 9532, 8619, 7331, 5747, 3948, 2008, 0, -2008, -3948, -5747, -7331, -8619, -9532, -10000, -9966, -9401, -8306, -6722, -4730, -2442 >>,
      << 0, 2360, 4580, 6534, 8115, 9249, 9893, 10039, 9709, 8946, 7812, 6378, 4714, 2890, 974, -974, -2890, -4714, -6378, -7812, -8946, -9709, -10039, -9893, -9249, -8115, -6534, -4580, -2360 >>,
      << 0, 2282, 4439, 6353, 7929, 9093, 9804, 10049, 9841, 9217, 8227, 6934, 5402, 3696, 1876, 0, -1876, -3696, -5402, -6934, -8227, -9217, -9841, -10049, -9804, -9093, -7929, -6353, -4439, -2282 >>,
      << 0, 2210, 4306, 6182, 7747, 8935, 9703, 10034, 9937, 9438, 8583, 7424, 6019, 4429, 2708, 911, -911, -2708, -4429, -6019, -7424, -8583, -9438, -9937, -10034, -9703, -8935, -7747, -6182, -4306, -2210 >>,
      << 0, 2142, 4180, 6018, 7571, 8777, 9592, 9999, 10000, 9617, 8885, 7853, 6571, 5094, 3473, 1760, 0, -1760, -3473, -5094, -6571, -7853, -8885, -9617, -10000, -9999, -9592, -8777, -7571, -6018, -4180, -2142 >>,
      << 0, 2078, 4062, 5861, 7400, 8618, 9474, 9947, 10036, 9757, 9141, 8227, 7063, 5696, 4175, 2547, 856, -856, -2547, -4175, -5696, -7063, -8227, -9141, -9757, -10036, -9947, -9474, -8618, -7400, -5861, -4062, -2078 >>,
      << 0, 2018, 3949, 5712, 7235, 8461, 9351, 9881, 10049, 9865, 9355, 8553, 7499, 6239, 4817, 3276, 1657, 0, -1657, -3276, -4817, -6239, -7499, -8553, -9355, -9865, -10049, -9881, -9351, -8461, -7235, -5712, -3949, -2018 >>,
      << 0, 1961, 3843, 5569, 7075, 8306, 9223, 9804, 10043, 9945, 9532, 8834, 7886, 6728, 5402, 3948, 2404, 807, -807, -2404, -3948, -5402, -6728, -7886, -8834, -9532, -9945, -10043, -9804, -9223, -8306, -7075, -5569, -3843, -1961 >>,
      << 0, 1907, 3742, 5433, 6920, 8153, 9093, 9718, 10019, 10000, 9677, 9076, 8227, 7168, 5935, 4567, 3099, 1565, 0, -1565, -3099, -4567, -5935, -7168, -8227, -9076, -9677, -10000, -10019, -9718, -9093, -8153, -6920, -5433, -3742, -1907 >>,
      << 0, 1857, 3646, 5303, 6771, 8003, 8962, 9625, 9982, 10033, 9793, 9282, 8527, 7562, 6420, 5136, 3744, 2276, 764, -764, -2276, -3744, -5136, -6420, -7562, -8527, -9282, -9793, -10033, -9982, -9625, -8962, -8003, -6771, -5303, -3646, -1857 >>
    >>

SpiralX(numAngles, i) == SpiralXTable[numAngles - MinAngles + 1][i + 1]
SpiralY(numAngles, i) == SpiralYTable[numAngles - MinAngles + 1][i + 1]

\* A test under which regions that only touch do not overlap.
OverlapsInside(area1, area2) ==
    ~ ( area1.x + area1.width <= area2.x
        \/ area2.x + area2.width <= area1.x
        \/ area1.y + area1.height <= area2.y
        \/ area2.y + area2.height <= area1.y )

isOverlapping(area1, area2) ==
    ~ ( area1.x + area1.width < area2.x
        \/ area2.x + area2.width < area1.x
        \/ area1.y + area1.height < area2.y
        \/ area2.y + area2.height < area1.y )

\* const margin = 10
Margin == 10

\* const numAngles = Math.max(8, Math.floor(radius / 8))
NumAngles(radius) == Max(MinAngles, FloorDiv(radius, 8 * Unit))

\* the candidate of (radius, i): i and its top-left corner
Candidate(word, centerX, centerY, radius, i) ==
    [ i |-> i,
      x |-> centerX + FloorDiv(radius * SpiralX(NumAngles(radius), i), TrigScale)
            - FloorDiv(word.width, 2),
      y |-> centerY + FloorDiv(radius * SpiralY(NumAngles(radius), i), TrigScale)
            - FloorDiv(word.height, 2) ]

\* the test before "continue"
OutsideMargin(word, c, cfg) ==
    \/ c.x < Margin * Unit
    \/ c.y < Margin * Unit
    \/ c.x + word.width > cfg.width * Unit - Margin * Unit
    \/ c.y + word.height > cfg.height * Unit - Margin * Unit

\* const gap = Math.max(config.wordGap, word.fontSize / 12)
SearchGap(word, cfg) == Max(cfg.wordGap * Unit, FloorDiv(word.fontSize * Unit, 12))

\* const gap = Math.max(config.wordGap, word.fontSize / 10)
RecordGap(word, cfg) == Max(cfg.wordGap * Unit, FloorDiv(word.fontSize * Unit, 10))

PaddedArea(x, y, word, gap) ==
    [ x |-> x - gap, y |-> y - gap,
      width |-> word.width + gap * 2, height |-> word.height + gap * 2 ]

\* A collision test that finds every candidate free.
AnyAreaFree(wordArea, areas) == FALSE

\* occupiedAreas.some(area => this.isOverlapping(wordArea, area))
HasOverlap(wordArea, areas) ==
    \E k \in 1..Len(areas) : isOverlapping(wordArea, areas[k])

\* The inner loop at one radius: the candidates inside the margin (word.x and
\* word.y are assigned there), and among them those accepted.
InsideAt(word, centerX, centerY, radius, cfg) ==
    { c \in { Candidate(word, centerX, centerY, radius, i) :
                 i \in 0..(NumAngles(radius) - 1) } :
        ~ OutsideMargin(word, c, cfg) }

NoOverlapAt(word, c, areas, cfg) ==
    ~ HasOverlap(PaddedArea(c.x, c.y, word, SearchGap(word, cfg)), areas)

AcceptedAmong(inside, word, areas, cfg) ==
    { c \in inside : NoOverlapAt(word, c, areas, cfg) }

Lowest(S) == CHOOSE i \in S : \A j \in S : i <= j

\* A choice of the accepted candidate met last in the inner loop.
HighestOf(S) == CHOOSE c \in S : \A d \in S : c.i >= d.i

\* the candidate of the lowest i, of the highest i
FirstOf(S) == CHOOSE c \in S : \A d \in S : c.i <= d.i
LastOf(S) == CHOOSE c \in S : \A d \in S : c.i >= d.i

\* const radiusStep = Math.max(2, word.fontSize / 8)
RadiusStep(word) == Max(2 * Unit, FloorDiv(word.fontSize * Unit, 8))

\* const startRadius = Math.max(word.fontSize / 2, 20)
StartRadius(word) == Max(FloorDiv(word.fontSize * Unit, 2), 20 * Unit)

\* const maxRadius = Math.min(width, height) / 2 - Math.max(word.width, word.height)
MaxRadius(word, cfg) ==
    FloorDiv(Min(cfg.width, cfg.height) * Unit, 2) - Max(word.width, word.height)

\* radius in pass k (k = 0, 1, ...) of the outer loop: radius += radiusStep
RadiusAt(word, k) == StartRadius(word) + k * RadiusStep(word)

\* The passes of the outer loop: radius < maxRadius.  radiusStep is at least 2,
\* so there are fewer than min(width, height) / 4 + 1 of them.
Passes(word, cfg) ==
    { k \in 0..FloorDiv(Min(cfg.width, cfg.height), 4) :
        RadiusAt(word, k) < MaxRadius(word, cfg) }

InsideIn(word, centerX, centerY, cfg, k) ==
    InsideAt(word, centerX, centerY, RadiusAt(word, k), cfg)

AcceptedIn(word, centerX, centerY, areas, cfg, k) ==
    AcceptedAmong(InsideIn(word, centerX, centerY, cfg, k), word, areas, cfg)

\* the pass that returns true: the first one with an accepted candidate
ReturningPass(word, centerX, centerY, areas, cfg) ==
    CHOOSE k \in Passes(word, cfg) :
        /\ AcceptedIn(word, centerX, centerY, areas, cfg, k) # {}
        /\ \A j \in Passes(word, cfg) :
               j < k => AcceptedIn(word, centerX, centerY, areas, cfg, j) = {}

\* the last pass that assigned word.x and word.y
LastAssigningPass(word, centerX, centerY, cfg) ==
    CHOOSE k \in Passes(word, cfg) :
        /\ InsideIn(word, centerX, centerY, cfg, k) # {}
        /\ \A j \in Passes(word, cfg) :
               j > k => InsideIn(word, centerX, centerY, cfg, j) = {}

\* [placed, x, y] for a candidate the search returns true on
PlacedAt(c) == [placed |-> TRUE, x |-> c.x, y |-> c.y]

\* [placed, x, y] when the search returns false: word.x and word.y are those
\* of the last candidate inside the margin, if there was one
Unplaced(c) == [placed |-> FALSE, x |-> c.x, y |-> c.y]

\* [placed, x, y]: the result, and word.x, word.y as the call leaves them.
findPositionOrderedSpiral(word, centerX, centerY, areas, cfg) ==
    IF \E k \in Passes(word, cfg) :
           AcceptedIn(word, centerX, centerY, areas, cfg, k) # {}
    THEN PlacedAt(FirstOf(AcceptedIn(word, centerX, centerY, areas, cfg,
                      ReturningPass(word, centerX, centerY, areas, cfg))))
    ELSE IF \E k \in Passes(word, cfg) : InsideIn(word, centerX, centerY, cfg, k) # {}
         THEN Unplaced(LastOf(InsideIn(word, centerX, centerY, cfg,
                           LastAssigningPass(word, centerX, centerY, cfg))))
         ELSE Unplaced(word)

\* A clamp to the canvas edges, wordGap left out.
ClampToCanvasEdge(v, size, canvas, cfg) == Max(0, Min(canvas * Unit - size, v))

\* Math.max(wordGap, Math.min(canvas - size - wordGap, v)), canvas in pixels
Clamp(v, size, canvas, cfg) ==
    Max(cfg.wordGap * Unit, Min(canvas * Unit - size - cfg.wordGap * Unit, v))

\* An insertion that puts an item ahead of the items of its own font size.
RECURSIVE InsertAheadOfEqual(_, _, _)
InsertAheadOfEqual(sorted, r, items) ==
    IF sorted = << >> THEN << r >>
    ELSE IF items[r].fontSize >= items[Head(sorted)].fontSize
         THEN << r >> \o sorted
         ELSE << Head(sorted) >> \o InsertAheadOfEqual(Tail(sorted), r, items)

\* [...wordItems].sort((a, b) => b.fontSize - a.fontSize): the items are
\* objects, so the sorted array holds references (indexes into wordItems).
RECURSIVE InsertByFontSize(_, _, _)
InsertByFontSize(sorted, r, items) ==
    IF sorted = << >> THEN << r >>
    ELSE IF items[r].fontSize > items[Head(sorted)].fontSize
         THEN << r >> \o sorted
         ELSE << Head(sorted) >> \o InsertByFontSize(Tail(sorted), r, items)

RECURSIVE SortRefsFrom(_, _, _)
SortRefsFrom(items, k, sorted) ==
    IF k > Len(items) THEN sorted
    ELSE SortRefsFrom(items, k + 1, InsertByFontSize(sorted, k, items))

SortByFontSize(items) == SortRefsFrom(items, 1, << >>)

\* if (i === 0) { centre } else { findPositionOrderedSpiral }
FirstOrSpiral(word, i, centerX, centerY, areas, cfg) ==
    IF i = 0
    THEN [ placed |-> TRUE,
           x |-> centerX - FloorDiv(word.width, 2),
           y |-> centerY - FloorDiv(word.height, 2) ]
    ELSE findPositionOrderedSpiral(word, centerX, centerY, areas, cfg)

\* A placement that also cuts the width of the word down to the canvas.
ClampedWordCut(word, found, cfg) ==
    [word EXCEPT !.x = found.x, !.y = found.y,
                 !.width = Min(word.width, cfg.width * Unit - 1)]

\* if (placed) { word.x = clamp; word.y = clamp }
ClampedWord(word, found, cfg) ==
    IF found.placed
    THEN [word EXCEPT !.x = Clamp(found.x, word.width, cfg.width, cfg),
                      !.y = Clamp(found.y, word.height, cfg.height, cfg)]
    ELSE [word EXCEPT !.x = found.x, !.y = found.y]

\* the padded region pushed to occupiedAreas
RecordedArea(word, cfg) == PaddedArea(word.x, word.y, word, RecordGap(word, cfg))

Outcome(placed, word, cfg) ==
    [placed |-> placed, word |-> word, area |-> RecordedArea(word, cfg)]

Settle(word, found, cfg) == Outcome(found.placed, ClampedWord(word, found, cfg), cfg)

\* One pass of the loop body for sortedWords[i]: [placed, word, area].
LayoutOne(word, i, areas, cfg) ==
    Settle(word,
           FirstOrSpiral(word, i, FloorDiv(cfg.width * Unit, 2),
                         FloorDiv(cfg.height * Unit, 2), areas, cfg),
           cfg)

\* The loop of smartLayoutWords from pass i on: the items, the areas and the
\* references to the placed items when it ends.
RECURSIVE LayoutFrom(_, _, _, _, _, _)
LayoutFrom(items, sorted, i, areas, placed, cfg) ==
    IF i >= Len(sorted)
    THEN [wordItems |-> items, occupiedAreas |-> areas, layoutedWords |-> placed]
    ELSE LET ref == sorted[i + 1]
             r   == LayoutOne(items[ref], i, areas, cfg)
         IN  LayoutFrom([items EXCEPT ![ref] = r.word], sorted, i + 1,
                        IF r.placed THEN Append(areas, r.area) ELSE areas,
                        IF r.placed THEN Append(placed, ref) ELSE placed,
                        cfg)

smartLayoutWords(items, cfg) ==
    LayoutFrom(items, SortByFontSize(items), 0, << >>, << >>, cfg)

----------------------------------------------------------------------------
(* generateSVG *)

RECURSIVE ReplaceAll(_, _, _)
\* text.replace(/c/g, rep)
ReplaceAll(s, c, rep) ==
    IF s = << >> THEN << >>
    ELSE (IF Head(s) = c THEN rep ELSE << Head(s) >>) \o ReplaceAll(Tail(s), c, rep)

\* An escape that replaces the ampersand last, after the entities are there.
EscapeAmpersandLast(text) ==
    LET lt   == ReplaceAll(text, 60, << 38, 108, 116, 59 >>)
        gt   == ReplaceAll(lt, 62, << 38, 103, 116, 59 >>)
        quot == ReplaceAll(gt, 34, << 38, 113, 117, 111, 116, 59 >>)
        apos == ReplaceAll(quot, 39, << 38, 35, 51, 57, 59 >>)
    IN  ReplaceAll(apos, 38, << 38, 97, 109, 112, 59 >>)

escapeXml(text) ==
    LET amp  == ReplaceAll(text, 38, << 38, 97, 109, 112, 59 >>)
        lt   == ReplaceAll(amp, 60, << 38, 108, 116, 59 >>)
        gt   == ReplaceAll(lt, 62, << 38, 103, 116, 59 >>)
        quot == ReplaceAll(gt, 34, << 38, 113, 117, 111, 116, 59 >>)
    IN  ReplaceAll(quot, 39, << 38, 35, 51, 57, 59 >>)

\* One <text> element.
SvgText(word) ==
    [ x          |-> word.x + FloorDiv(word.width, 2),
      y          |-> word.y + FloorDiv(word.height, 2),
      fontSize   |-> word.fontSize,
      fill       |-> word.color,
      fontWeight |-> IF word.frequency > 3 THEN "bold" ELSE "normal",
      angle      |-> word.angle,
      text       |-> escapeXml(word.text) ]

\* The document: its size, the fill of its <rect>, its <text> elements.
generateSVG(words, cfg) ==
    [ width    |-> cfg.width,
      height   |-> cfg.height,
      rectFill |-> "white",
      elements |-> [k \in 1..Len(words) |-> SvgText(words[k])] ]

----------------------------------------------------------------------------
(* Paths (POSIX; no trailing separators) and saveFile *)

Slash == 47
Dot == 46

\* process.cwd(): "/w"
Cwd == << 47, 119 >>

\* '.svg'
SvgExt == << 46, 115, 118, 103 >>

LastIndexOf(s, c) ==
    IF \E k \in 1..Len(s) : s[k] = c
    THEN CHOOSE k \in 1..Len(s) : s[k] = c /\ \A j \in (k + 1)..Len(s) : s[j] # c
    ELSE 0

\* s.endsWith(suffix)
EndsWith(s, suffix) ==
    /\ Len(suffix) <= Len(s)
    /\ SubSeq(s, Len(s) - Len(suffix) + 1, Len(s)) = suffix

\* the part after the last separator
LastSegment(p) == SubSeq(p, LastIndexOf(p, Slash) + 1, Len(p))

\* path.extname(p)
extname(p) ==
    LET base == LastSegment(p)
        k    == LastIndexOf(base, Dot)
    IN  IF k <= 1 \/ base = << Dot, Dot >> THEN << >> ELSE SubSeq(base, k, Len(base))

\* path.dirname(p)
dirname(p) ==
    LET k == LastIndexOf(p, Slash)
    IN  IF k = 0 THEN << Dot >>
        ELSE IF k = 1 THEN << Slash >> ELSE SubSeq(p, 1, k - 1)

\* path.basename(p, ext)
basename(p, ext) ==
    LET base == LastSegment(p)
    IN  IF Len(ext) > 0 /\ EndsWith(base, ext) /\ base # ext
        THEN SubSeq(base, 1, Len(base) - Len(ext)) ELSE base

\* s.replace(pattern, replacement) with a string pattern: the first occurrence
ReplaceFirst(s, pattern, replacement) ==
    LET hits == { k \in 1..(Len(s) - Len(pattern) + 1) :
                    SubSeq(s, k, k + Len(pattern) - 1) = pattern }
    IN  IF hits = {} THEN s
        ELSE LET k == Lowest(hits)
             IN  SubSeq(s, 1, k - 1) \o replacement
                 \o SubSeq(s, k + Len(pattern), Len(s))

\* the segments of a path, "" and "." dropped, ".." applied
RECURSIVE SegmentsFrom(_, _, _, _)
SegmentsFrom(p, k, cur, done) ==
    LET push == IF cur = << >> \/ cur = << Dot >> THEN done
                ELSE IF cur = << Dot, Dot >>
                     THEN SubSeq(done, 1, Max(Len(done) - 1, 0))
                     ELSE Append(done, cur)
    IN  IF k > Len(p) THEN push
        ELSE IF p[k] = Slash THEN SegmentsFrom(p, k + 1, << >>, push)
             ELSE SegmentsFrom(p, k + 1, Append(cur, p[k]), done)

RECURSIVE JoinSegments(_)
JoinSegments(segs) ==
    IF segs = << >> THEN << >>
    ELSE << Slash >> \o Head(segs) \o JoinSegments(Tail(segs))

\* path.resolve(p): absolute and normalized
resolve(p) ==
    LET full == IF Len(p) > 0 /\ p[1] = Slash THEN p ELSE Cwd \o << Slash >> \o p
        segs == SegmentsFrom(full, 1, << >>, << >>)
    IN  IF segs = << >> THEN << Slash >> ELSE JoinSegments(segs)

\* path.isAbsolute(p) ? p : path.resolve(p)
ResolvedPath(p) == IF Len(p) > 0 /\ p[1] = Slash THEN p ELSE resolve(p)

\* path.join(dir, file)
join(dir, file) == resolve(dir \o << Slash >> \o file)

RECURSIVE Decimal(_)
\* `${counter}`
Decimal(n) ==
    IF n < 10 THEN << 48 + n >> ELSE Decimal(n \div 10) \o << 48 + (n % 10) >>

\* path.join(dir, `${name}_${counter}${ext}`)
NumberedPath(resolvedPath, n) ==
    LET ext  == extname(resolvedPath)
        name == basename(resolvedPath, ext)
    IN  join(dirname(resolvedPath), name \o << 95 >> \o Decimal(n) \o ext)

\* the directory and the directories above it: what fs.ensureDir makes exist
RECURSIVE Ancestors(_)
Ancestors(dir) ==
    IF dir = << Slash >> \/ dir = << Dot >> THEN {dir}
    ELSE {dir} \cup Ancestors(dirname(dir))

\* A probe that finds every path free.
NothingExists(p) == FALSE

\* fs.pathExists(p)
pathExists(p) == p \in fsDirs \/ p \in DOMAIN fsFiles

\* generate: the path handed to saveFile
SvgOutputPath(outputPath) ==
    IF EndsWith(outputPath, SvgExt) THEN outputPath
    ELSE ReplaceFirst(outputPath, extname(outputPath), SvgExt)

----------------------------------------------------------------------------
(* MultiFormatWordCloudGenerator: configuration and validation.  Its layout   *)
(* and its renderers are not computed here: the stages it runs are recorded.  *)

\* './wordcloud.png'
MultiDefaultOutputPath ==
    << 46, 47, 119, 111, 114, 100, 99, 108, 111, 117, 100, 46, 112, 110, 103 >>

\* MultiFormatWordCloudGenerator.defaultOptions
multiDefaultOptions ==
    [ theme           |-> "default",
      shape           |-> "rectangle",
      wordGap         |-> 4,
      fontSize        |-> [min |-> 12 * Unit, max |-> 80 * Unit],
      angleRange      |-> [min |-> -45, max |-> 45],
      angleStep       |-> 15,
      outputPath      |-> MultiDefaultOutputPath,
      format          |-> "png",
      width           |-> 800,
      height          |-> 600,
      backgroundColor |-> "#ffffff",
      quality         |-> 90 ]

supportedFormats == {"svg", "png", "jpg", "jpeg", "webp"}

\* /^#[0-9A-Fa-f]{6}$/ on the colours the model uses
IsHexColor(c) == c \in {"#ffffff", "#000000", "#FF4444"}

\* `.${format}`
FormatExt(format) ==
    << Dot >> \o ( CASE format = "svg"  -> << 115, 118, 103 >>
                     [] format = "png"  -> << 112, 110, 103 >>
                     [] format = "jpg"  -> << 106, 112, 103 >>
                     [] format = "jpeg" -> << 106, 112, 101, 103 >>
                     [] format = "webp" -> << 119, 101, 98, 112 >> )

\* The message validateConfig throws, or "" when it returns.
validateConfig(cfg) ==
    IF cfg.format \notin supportedFormats THEN "unsupported output format"
    ELSE IF cfg.width < 100 \/ cfg.width > 5000 THEN "width must be within 100-5000"
    ELSE IF cfg.height < 100 \/ cfg.height > 5000 THEN "height must be within 100-5000"
    ELSE IF cfg.quality < 1 \/ cfg.quality > 100 THEN "quality must be within 1-100"
    ELSE IF ~ IsHexColor(cfg.backgroundColor) THEN "background colour must be a hex colour"
    ELSE ""

adjustOutputPath(outputPath, format) ==
    IF extname(outputPath) # FormatExt(format)
    THEN ReplaceFirst(outputPath, extname(outputPath), FormatExt(format))
    ELSE outputPath

\* the cap of .slice(0, 100)
MultiMaxWords == 100

multiAnalyzeWordFrequency(text) ==
    IF Len(text) = 0 \/ Len(Trim(text)) = 0 THEN << >>
    ELSE SliceTo(SortByFrequency(CountWords(NonEmptyOnly(SplitWhitespace(text)))),
                 MultiMaxWords)

\* saveFile's loop: the first of p, name_1.ext, name_2.ext, ... that does not exist
RECURSIVE FirstFreeFrom(_, _, _)
FirstFreeFrom(resolvedPath, p, n) ==
    IF pathExists(p) THEN FirstFreeFrom(resolvedPath, NumberedPath(resolvedPath, n), n + 1)
    ELSE p

----------------------------------------------------------------------------
(* The calls *)

\* the characters of the texts: a, a CJK ideograph, a space
TextChars == {97, 20013, 32}

Texts(n) == UNION { [1..k -> TextChars] : k \in 0..n }

\* An options object: every field is given or left out.
Field(name, given) == IF given = {} THEN << >> ELSE name :> (CHOOSE v \in given : TRUE)

CallOptions ==
    { Field("width", w) @@ Field("height", h) @@ Field("wordGap", g)
        @@ Field("fontSize", f) @@ Field("theme", t) :
        w \in {{}, {50}},
        h \in {{}, {300}},
        g \in {{}, {40}, {300}},
        f \in {{}, {FontRange(16, 23)}},
        t \in {{}, {"neon"}} }
    \cup { Field("backgroundColor", {"#000000"}) }

NoResponse == [isError |-> FALSE, message |-> "", path |-> << >>]

Thrown(message) == [isError |-> TRUE, message |-> message, path |-> << >>]

Returned(path) == [isError |-> FALSE, message |-> "", path |-> path]

\* the state before a call, the file system apart
Idle ==
    /\ config = << >>
    /\ wordFrequencies = << >>
    /\ wordItems = << >>
    /\ sortedWords = << >>
    /\ loopI = 0
    /\ occupiedAreas = << >>
    /\ layoutedWords = << >>
    /\ svgContent = << >>
    /\ finalPath = << >>
    /\ counter = 0
    /\ response = NoResponse
    /\ ran = {}
    /\ validation = << >>
    /\ generator = NewGenerator
    /\ raised = << >>
    /\ cleaner = NewCleaner
    /\ loopAngle = 0
    /\ angleList = << >>

Init ==
    /\ pc = "call"
    /\ args \in [ text : Texts(MaxTextLen), format : {"svg", "png"},
                  options : CallOptions ]
    /\ fsDirs = {<< Slash >>}
    /\ fsFiles \in { << >>, resolve(DefaultOutputPath) :> "old" }
    /\ Idle

\* A test that never finds the list empty.
AlwaysSomeWords(wf) == FALSE

\* if (wordFrequencies.length === 0)
NoWordsFound(wf) == Len(wf) = 0

\* WordCloudGenerator.generate up to the call of prepareWordItems; the server
\* calls it when format is svg (or missing).
Generate ==
    /\ pc = "call"
    /\ args.format = "svg"
    /\ LET merged == MergeOptions(defaultOptions, args.options)
           wf     == analyzeWordFrequency(args.text)
       IN  /\ config' = [merged EXCEPT !.outputPath = SvgOutputPath(merged.outputPath)]
           /\ wordFrequencies' = wf
           /\ ran' = ran \cup {"analyze"}
           /\ IF NoWordsFound(wf)
              THEN /\ response' = Thrown("generation failed: no valid words")
                   /\ pc' = "done"
              ELSE /\ response' = response
                   /\ pc' = "prepare"
    /\ UNCHANGED << args, wordItems, sortedWords, loopI, occupiedAreas,
                    layoutedWords, svgContent, fsDirs, fsFiles, finalPath,
                    counter, validation,
                    generator, raised, cleaner,
                    loopAngle, angleList >>

Prepare ==
    /\ pc = "prepare"
    /\ wordItems' \in prepareWordItems(wordFrequencies, config)
    /\ ran' = ran \cup {"prepare"}
    /\ pc' = "layout"
    /\ UNCHANGED << args, config, wordFrequencies, sortedWords, loopI,
                    occupiedAreas, layoutedWords, svgContent, fsDirs, fsFiles,
                    finalPath, counter, response, validation,
                    generator, raised, cleaner,
                    loopAngle, angleList >>

\* smartLayoutWords up to its loop
LayoutBegin ==
    /\ pc = "layout"
    /\ sortedWords' = SortByFontSize(wordItems)
    /\ loopI' = 0
    /\ occupiedAreas' = << >>
    /\ layoutedWords' = << >>
    /\ ran' = ran \cup {"layout"}
    /\ pc' = "loop"
    /\ UNCHANGED << args, config, wordFrequencies, wordItems, svgContent,
                    fsDirs, fsFiles, finalPath, counter, response, validation,
                    generator, raised, cleaner,
                    loopAngle, angleList >>

\* the effect of one pass on the arrays
LayoutApply(ref, r) ==
    /\ wordItems' = [wordItems EXCEPT ![ref] = r.word]
    /\ occupiedAreas' = IF r.placed THEN Append(occupiedAreas, r.area)
                                    ELSE occupiedAreas
    /\ layoutedWords' = IF r.placed THEN Append(layoutedWords, ref)
                                    ELSE layoutedWords

\* one pass of the loop of smartLayoutWords
LayoutStep ==
    /\ pc = "loop"
    /\ loopI < Len(sortedWords)
    /\ LayoutApply(sortedWords[loopI + 1],
                   LayoutOne(wordItems[sortedWords[loopI + 1]], loopI,
                             occupiedAreas, config))
    /\ loopI' = loopI + 1
    /\ UNCHANGED << pc, args, config, wordFrequencies, sortedWords, svgContent,
                    fsDirs, fsFiles, finalPath, counter, response, ran,
                    validation,
                    generator, raised, cleaner,
                    loopAngle, angleList >>

\* layoutedWords as the caller sees it: the items behind the references
LayoutedItems == [k \in 1..Len(layoutedWords) |-> wordItems[layoutedWords[k]]]

\* return layoutedWords
LayoutEnd ==
    /\ pc = "loop"
    /\ loopI = Len(sortedWords)
    /\ pc' = "render"
    /\ UNCHANGED << args, config, wordFrequencies, wordItems, sortedWords, loopI,
                    occupiedAreas, layoutedWords, svgContent, fsDirs, fsFiles,
                    finalPath, counter, response, ran, validation,
                    generator, raised, cleaner,
                    loopAngle, angleList >>

Render ==
    /\ pc = "render"
    /\ svgContent' = generateSVG(LayoutedItems, config)
    /\ ran' = ran \cup {"render"}
    /\ pc' = "save"
    /\ UNCHANGED << args, config, wordFrequencies, wordItems, sortedWords, loopI,
                    occupiedAreas, layoutedWords, fsDirs, fsFiles, finalPath,
                    counter, response, validation,
                    generator, raised, cleaner,
                    loopAngle, angleList >>

\* saveFile up to its first await fs.pathExists
SaveEnsureDir ==
    /\ pc = "save"
    /\ fsDirs' = fsDirs \cup Ancestors(dirname(ResolvedPath(config.outputPath)))
    /\ finalPath' = ResolvedPath(config.outputPath)
    /\ counter' = 1
    /\ ran' = ran \cup {"save"}
    /\ pc' = "probe"
    /\ UNCHANGED << args, config, wordFrequencies, wordItems, sortedWords, loopI,
                    occupiedAreas, layoutedWords, svgContent, fsFiles, response,
                    validation,
                    generator, raised, cleaner,
                    loopAngle, angleList >>

\* while (await fs.pathExists(finalPath)): the path exists
SaveProbeTaken ==
    /\ pc = "probe"
    /\ pathExists(finalPath)
    /\ finalPath' = NumberedPath(ResolvedPath(config.outputPath), counter)
    /\ counter' = counter + 1
    /\ UNCHANGED << pc, args, config, wordFrequencies, wordItems, sortedWords,
                    loopI, occupiedAreas, layoutedWords, svgContent, fsDirs,
                    fsFiles, response, ran, validation,
                    generator, raised, cleaner,
                    loopAngle, angleList >>

\* while (await fs.pathExists(finalPath)): the path is free
SaveProbeFree ==
    /\ pc = "probe"
    /\ ~ pathExists(finalPath)
    /\ pc' = "write"
    /\ UNCHANGED << args, config, wordFrequencies, wordItems, sortedWords, loopI,
                    occupiedAreas, layoutedWords, svgContent, fsDirs, fsFiles,
                    finalPath, counter, response, ran, validation,
                    generator, raised, cleaner,
                    loopAngle, angleList >>

\* await fs.writeFile(finalPath, content); return finalPath
SaveWrite ==
    /\ pc = "write"
    /\ fsFiles' = (finalPath :> svgContent) @@ fsFiles
    /\ response' = Returned(finalPath)
    /\ pc' = "done"
    /\ UNCHANGED << args, config, wordFrequencies, wordItems, sortedWords, loopI,
                    occupiedAreas, layoutedWords, svgContent, fsDirs, finalPath,
                    counter, ran, validation,
                    generator, raised, cleaner,
                    loopAngle, angleList >>

\* MultiFormatWordCloudGenerator.generate up to its try block; the server calls
\* it, with format among the options, when format is not svg.
MultiGenerate ==
    /\ pc = "call"
    /\ args.format # "svg"
    /\ LET merged  == MergeOptions(multiDefaultOptions,
                                   ("format" :> args.format) @@ args.options)
           message == validateConfig(merged)
       IN  IF message # ""
           THEN /\ response' = Thrown(message)
                /\ config' = merged
                /\ pc' = "done"
           ELSE /\ response' = response
                /\ config' = [merged EXCEPT
                                !.outputPath = adjustOutputPath(merged.outputPath,
                                                                merged.format)]
                /\ pc' = "multi"
    /\ UNCHANGED << args, wordFrequencies, wordItems, sortedWords, loopI,
                    occupiedAreas, layoutedWords, svgContent, fsDirs, fsFiles,
                    finalPath, counter, ran, validation,
                    generator, raised, cleaner,
                    loopAngle, angleList >>

\* The try block of MultiFormatWordCloudGenerator.generate: the analysis, then
\* the layout, the rendering and the save, of which only the effects on the
\* file system are kept.
MultiRest ==
    /\ pc = "multi"
    /\ LET wf       == multiAnalyzeWordFrequency(args.text)
           resolved == ResolvedPath(config.outputPath)
           target   == FirstFreeFrom(resolved, resolved, 1)
       IN  /\ wordFrequencies' = wf
           /\ IF Len(wf) = 0
              THEN /\ response' = Thrown("multi-format generation failed: no valid words")
                   /\ ran' = ran \cup {"analyze"}
                   /\ UNCHANGED << fsDirs, fsFiles, finalPath,
                    loopAngle, angleList >>
              ELSE /\ ran' = ran \cup {"analyze", "prepare", "layout", "render", "save"}
                   /\ fsDirs' = fsDirs \cup Ancestors(dirname(resolved))
                   /\ fsFiles' = (target :> "bitmap") @@ fsFiles
                   /\ finalPath' = target
                   /\ response' = Returned(target)
    /\ pc' = "done"
    /\ UNCHANGED << args, config, wordItems, sortedWords, loopI, occupiedAreas,
                    layoutedWords, svgContent, counter, validation,
                    generator, raised, cleaner,
                    loopAngle, angleList >>

Next ==
    \/ Generate
    \/ Prepare
    \/ LayoutBegin
    \/ LayoutStep
    \/ LayoutEnd
    \/ Render
    \/ SaveEnsureDir
    \/ SaveProbeTaken
    \/ SaveProbeFree
    \/ SaveWrite
    \/ MultiGenerate
    \/ MultiRest

Spec == Init /\ [][Next]_vars

----------------------------------------------------------------------------
(* analyzeWordFrequency on its own *)

\* the words of the token sequences: a, b, c
TokenWords == { << 97 >>, << 98 >>, << 99 >> }

\* tokens.join(' ')
RECURSIVE JoinTokens(_)
JoinTokens(ts) ==
    IF ts = << >> THEN << >>
    ELSE IF Len(ts) = 1 THEN Head(ts)
         ELSE Head(ts) \o << 32 >> \o JoinTokens(Tail(ts))

TokenTexts ==
    { JoinTokens(ts) : ts \in UNION { [1..k -> TokenWords] : k \in 0..MaxTokens } }

\* the k-th of the many distinct words: one character
ManyWord(k) == 1000 + k

\* n distinct words, then the words from the r-th on once more, a space
\* between two words
LongText(n, r) ==
    [p \in 1..(2 * (n + (n + 1 - r)) - 1) |->
        IF p % 2 = 0 THEN 32
        ELSE IF (p + 1) \div 2 <= n THEN ManyWord((p + 1) \div 2)
             ELSE ManyWord(r + ((p + 1) \div 2 - n) - 1)]

LongTexts ==
    { LongText(n, r) :
        n \in (MaxWords - 1)..(MaxWords + MaxOverCap),
        r \in {1, 2, MaxWords \div 2, MaxWords - 1} }

InitAnalyze ==
    /\ pc = "analyze"
    /\ args \in [ text : TokenTexts \cup Texts(MaxTextLen) \cup LongTexts,
                  format : {"svg"}, options : {<< >>} ]
    /\ fsDirs = {<< Slash >>}
    /\ fsFiles = << >>
    /\ Idle

\* a call of analyzeWordFrequency(text)
Analyze ==
    /\ pc = "analyze"
    /\ wordFrequencies' = analyzeWordFrequency(args.text)
    /\ ran' = ran \cup {"analyze"}
    /\ pc' = "analyzed"
    /\ UNCHANGED << args, config, wordItems, sortedWords, loopI, occupiedAreas,
                    layoutedWords, svgContent, fsDirs, fsFiles, finalPath,
                    counter, response, validation,
                    generator, raised, cleaner,
                    loopAngle, angleList >>

SpecAnalyze == InitAnalyze /\ [][Analyze]_vars

----------------------------------------------------------------------------
(* prepareWordItems on its own *)

FrequencyLists ==
    { f \in UNION { [1..m -> 1..MaxCount] : m \in 1..MaxRanked } :
        \A k \in 1..(Len(f) - 1) : f[k] >= f[k + 1] }

\* the ranked lists: words a, b, c with frequencies that do not increase
RankedLists ==
    { [k \in 1..Len(f) |-> [word |-> << 96 + k >>, frequency |-> f[k]]] :
        f \in FrequencyLists }

\* the last one is {min: 12.5, max: 12.5}
FontRanges ==
    { FontRange(16, 66), FontRange(16, 23), FontRange(10, 11), FontRange(8, 200),
      FontRange(20, 20), FontRange(12, 80),
      [min |-> 12 * Unit + Unit \div 2, max |-> 12 * Unit + Unit \div 2] }

\* generate at its call of prepareWordItems(wordFrequencies, config)
InitPrepare ==
    /\ pc = "prepare"
    /\ args = [text |-> << >>, format |-> "svg", options |-> << >>]
    /\ wordFrequencies \in RankedLists
    /\ config \in { MergeOptions(defaultOptions, "fontSize" :> r) : r \in FontRanges }
    /\ wordItems = << >>
    /\ sortedWords = << >>
    /\ loopI = 0
    /\ occupiedAreas = << >>
    /\ layoutedWords = << >>
    /\ svgContent = << >>
    /\ fsDirs = {<< Slash >>}
    /\ fsFiles = << >>
    /\ finalPath = << >>
    /\ counter = 0
    /\ response = NoResponse
    /\ ran = {"analyze"}
    /\ validation = << >>
    /\ generator = NewGenerator
    /\ raised = << >>
    /\ cleaner = NewCleaner
    /\ loopAngle = 0
    /\ angleList = << >>

SpecPrepare == InitPrepare /\ [][Prepare]_vars

----------------------------------------------------------------------------
(* validateOptions *)

\* `options.f && ...` on a number: the field is there and is not 0
TruthyNumber(options, f) == f \in DOMAIN options /\ options[f] # 0

\* `options.f && ...` on a string: the field is there and is not ''
TruthyString(options, f) == f \in DOMAIN options /\ options[f] # ""

\* errors.push(message) when the test holds
PushIf(test, message) == IF test THEN << message >> ELSE << >>

\* the checks of options.fontSize
FontSizeErrors(fontSize) ==
    PushIf(fontSize.min < 8 * Unit \/ fontSize.min > 200 * Unit,
           "min font size must be 8-200 pixels")
    \o PushIf(fontSize.max < 8 * Unit \/ fontSize.max > 200 * Unit,
              "max font size must be 8-200 pixels")
    \o PushIf(fontSize.min >= fontSize.max, "min font size must be below max font size")

ValidationErrors(options) ==
    PushIf(TruthyNumber(options, "width")
             /\ (options.width < 100 \/ options.width > 5000),
           "width must be 100-5000 pixels")
    \o PushIf(TruthyNumber(options, "height")
                /\ (options.height < 100 \/ options.height > 5000),
              "height must be 100-5000 pixels")
    \o (IF "fontSize" \in DOMAIN options THEN FontSizeErrors(options.fontSize) ELSE << >>)
    \o PushIf(TruthyString(options, "theme") /\ options.theme \notin getSupportedThemes,
              "unsupported theme")

validateOptions(options) ==
    [ valid  |-> Len(ValidationErrors(options)) = 0,
      errors |-> ValidationErrors(options) ]

ValidatedOptions ==
    { Field("width", w) @@ Field("height", h) @@ Field("fontSize", f)
        @@ Field("theme", t) :
        w \in {{}, {0}, {50}, {100}, {5000}, {5001}},
        h \in {{}, {0}, {99}, {600}},
        f \in {{}, {FontRange(16, 66)}, {FontRange(8, 200)}, {FontRange(7, 200)},
               {FontRange(16, 201)}, {FontRange(20, 20)}},
        t \in {{}, {"default"}, {"neon"}, {""}} }

InitValidate ==
    /\ pc = "validate"
    /\ args \in [text : {<< >>}, format : {"svg"}, options : ValidatedOptions]
    /\ fsDirs = {<< Slash >>}
    /\ fsFiles = << >>
    /\ Idle

\* a call of validateOptions(options)
Validate ==
    /\ pc = "validate"
    /\ validation' = validateOptions(args.options)
    /\ pc' = "validated"
    /\ UNCHANGED << args, config, wordFrequencies, wordItems, sortedWords, loopI,
                    occupiedAreas, layoutedWords, svgContent, fsDirs, fsFiles,
                    finalPath, counter, response, ran,
                    generator, raised, cleaner,
                    loopAngle, angleList >>

SpecValidate == InitValidate /\ [][Validate]_vars

----------------------------------------------------------------------------
(* Properties of the layout (Spec) *)

\* smartLayoutWords has returned and nothing has been rendered yet
LayoutReturned == pc = "render"

\* an item's box at its final coordinates
BoxOf(item) == [x |-> item.x, y |-> item.y, width |-> item.width, height |-> item.height]

\* an item's box expanded on every side by max(wordGap, fontSize / 10)
PaddedRegionOf(item) ==
    LET gap == Max(config.wordGap * Unit, (item.fontSize * Unit) \div 10)
    IN  [ x |-> item.x - gap, y |-> item.y - gap,
          width |-> item.width + 2 * gap, height |-> item.height + 2 * gap ]

\* two closed rectangles with no common point
Disjoint(a, b) ==
    \/ a.x + a.width < b.x
    \/ b.x + b.width < a.x
    \/ a.y + a.height < b.y
    \/ b.y + b.height < a.y

\* C1: when smartLayoutWords has returned, the padded regions (the final box
\* expanded on every side by max(wordGap, fontSize/10)) of any two distinct
\* placed items do not intersect under isOverlapping.
C1_PaddedRegionsDisjoint ==
    LayoutReturned =>
        \A i, j \in 1..Len(layoutedWords) :
            i < j => ~ isOverlapping(PaddedRegionOf(LayoutedItems[i]),
                                     PaddedRegionOf(LayoutedItems[j]))

\* C2: in every layout smartLayoutWords returns, the unpadded boxes of any two
\* distinct placed items, at their final (clamped) coordinates, are disjoint.
C2_BoxesDisjoint ==
    LayoutReturned =>
        \A i, j \in 1..Len(layoutedWords) :
            i < j => Disjoint(BoxOf(LayoutedItems[i]), BoxOf(LayoutedItems[j]))

\* C2, its case: two items are placed with a wordGap above the margin, and the
\* second one sits where the clamp puts an item: at wordGap from an edge.
C2_Witness ==
    /\ LayoutReturned
    /\ Len(layoutedWords) >= 2
    /\ config.wordGap > Margin
    /\ \/ LayoutedItems[2].x = config.wordGap * Unit
       \/ LayoutedItems[2].y = config.wordGap * Unit
       \/ LayoutedItems[2].x + LayoutedItems[2].width
              = (config.width - config.wordGap) * Unit
       \/ LayoutedItems[2].y + LayoutedItems[2].height
              = (config.height - config.wordGap) * Unit

\* C3: every item smartLayoutWords returns, the first included, lies inside the
\* margin of 10: 10 <= x, 10 <= y, x + width <= canvasWidth - 10 and
\* y + height <= canvasHeight - 10.
C3_InsideMargin ==
    LayoutReturned =>
        \A k \in 1..Len(layoutedWords) :
            /\ Margin * Unit <= LayoutedItems[k].x
            /\ Margin * Unit <= LayoutedItems[k].y
            /\ LayoutedItems[k].x + LayoutedItems[k].width
                   <= (config.width - Margin) * Unit
            /\ LayoutedItems[k].y + LayoutedItems[k].height
                   <= (config.height - Margin) * Unit

\* the exact centre for a size on a canvas dimension given in pixels
CentreFor(size, canvas) == (canvas * Unit) \div 2 - size \div 2

\* C10, as the specification states it: the first processed item ends exactly
\* at x = canvasWidth/2 - width/2 and y = canvasHeight/2 - height/2.
C10_FirstItemExactlyCentred ==
    (LayoutReturned /\ Len(layoutedWords) >= 1) =>
        /\ LayoutedItems[1].x = CentreFor(LayoutedItems[1].width, config.width)
        /\ LayoutedItems[1].y = CentreFor(LayoutedItems[1].height, config.height)

\* one coordinate of the first item: the centre when the size and a wordGap on
\* both sides fit the canvas, wordGap otherwise
CentredOrAtGap(v, size, canvas) ==
    IF size + 2 * config.wordGap * Unit <= canvas * Unit
    THEN v = CentreFor(size, canvas)
    ELSE v = config.wordGap * Unit

\* C10, amended: the first processed item ends at the exact centre on every
\* axis where its size plus wordGap on both sides fits the canvas, and at the
\* coordinate wordGap on an axis where it does not.
C10_FirstItemCentredOrAtGap ==
    (LayoutReturned /\ Len(layoutedWords) >= 1) =>
        /\ CentredOrAtGap(LayoutedItems[1].x, LayoutedItems[1].width, config.width)
        /\ CentredOrAtGap(LayoutedItems[1].y, LayoutedItems[1].height, config.height)

\* C10, its case: the first item is exactly centred in x and, with a wordGap
\* too large for its height, put at y = wordGap, off the centre.
C10_Witness ==
    /\ LayoutReturned
    /\ Len(layoutedWords) >= 1
    /\ LayoutedItems[1].x = CentreFor(LayoutedItems[1].width, config.width)
    /\ LayoutedItems[1].y = config.wordGap * Unit
    /\ LayoutedItems[1].y # CentreFor(LayoutedItems[1].height, config.height)

----------------------------------------------------------------------------
(* Properties of a call (Spec) *)

\* the text has no word: it is empty or all white space
NoWords(text) == \A k \in 1..Len(text) : IsSpace(text[k])

\* C7: for a text that is empty or all white space, analyzeWordFrequency
\* returns the empty list, the call ends in an error, no stage after the
\* analysis runs, and no step of the call creates a directory or writes a file.
C7_EmptyTextFailsBeforePrepare ==
    /\ [](NoWords(args.text) =>
            /\ analyzeWordFrequency(args.text) = << >>
            /\ ran \subseteq {"analyze"}
            /\ (pc = "done" => response.isError))
    /\ [][NoWords(args.text) => (fsDirs' = fsDirs /\ fsFiles' = fsFiles)]_vars

\* C7, its case: generate has failed on a text of white space only.
C7_Witness ==
    /\ pc = "done"
    /\ args.format = "svg"
    /\ Len(args.text) > 0
    /\ NoWords(args.text)
    /\ response.isError
    /\ ran = {"analyze"}

\* the validation rules of the configuration surface, on a merged configuration
ViolatesRule(cfg) ==
    \/ cfg.width < 100 \/ cfg.width > 5000
    \/ cfg.height < 100 \/ cfg.height > 5000
    \/ cfg.fontSize.min >= cfg.fontSize.max
    \/ cfg.fontSize.min < 8 * Unit \/ cfg.fontSize.min > 200 * Unit
    \/ cfg.fontSize.max < 8 * Unit \/ cfg.fontSize.max > 200 * Unit
    \/ cfg.theme \notin {"default", "colorful", "warm", "cool", "nature", "business"}

\* C8: a call whose merged configuration violates a validation rule fails with
\* an error before any layout is computed or any file is written.
C8_InvalidConfigRejected ==
    (config # << >> /\ ViolatesRule(config)) =>
        /\ "layout" \notin ran
        /\ "save" \notin ran
        /\ (pc = "done" => response.isError)

----------------------------------------------------------------------------
(* Properties of prepareWordItems (SpecPrepare) *)

\* prepareWordItems has returned
Prepared == pc = "layout"

\* C4: for a font range with min <= max, the fontSize stored in every item of
\* prepareWordItems is at most min + 0.8 * (max - min).
C4_StoredFontSizeCapped ==
    (Prepared /\ config.fontSize.min <= config.fontSize.max) =>
        \A k \in 1..Len(wordItems) :
            10 * wordItems[k].fontSize * Unit
                <= 10 * config.fontSize.min
                   + 8 * (config.fontSize.max - config.fontSize.min)

----------------------------------------------------------------------------
(* Properties of analyzeWordFrequency (SpecAnalyze) *)

Analyzed == pc = "analyzed"

\* the tokens of a text are its maximal runs without white space; a token is
\* named by the position where it starts
TokenStarts(text) == { k \in 1..Len(text) : IsTokenStart(text, k) }

TokenAt(text, k) == SubSeq(text, k, TokenEnd(text, k))

DistinctTokens(text) == { TokenAt(text, k) : k \in TokenStarts(text) }

Occurrences(text, w) == Cardinality({ k \in TokenStarts(text) : TokenAt(text, k) = w })

FirstOccurrence(text, w) == Lowest({ k \in TokenStarts(text) : TokenAt(text, k) = w })

\* a comes before b in the ranking: a higher count, or the same count and an
\* earlier first occurrence
RanksBefore(text, a, b) ==
    \/ Occurrences(text, a) > Occurrences(text, b)
    \/ /\ Occurrences(text, a) = Occurrences(text, b)
       /\ FirstOccurrence(text, a) < FirstOccurrence(text, b)

\* C5: analyzeWordFrequency returns the words by non-increasing count, words of
\* equal count in the order of their first occurrence among the tokens.
C5_RankedByCountThenFirstOccurrence ==
    Analyzed =>
        \A i \in 1..(Len(wordFrequencies) - 1) :
            /\ wordFrequencies[i].frequency >= wordFrequencies[i + 1].frequency
            /\ RanksBefore(args.text, wordFrequencies[i].word,
                           wordFrequencies[i + 1].word)

\* C5, its case: the tokens a b a c b a give (a,3), (b,2), (c,1).
C5_Witness ==
    /\ Analyzed
    /\ args.text = << 97, 32, 98, 32, 97, 32, 99, 32, 98, 32, 97 >>
    /\ wordFrequencies = << [word |-> << 97 >>, frequency |-> 3],
                            [word |-> << 98 >>, frequency |-> 2],
                            [word |-> << 99 >>, frequency |-> 1] >>

\* C6: the list analyzeWordFrequency returns has at most 120 entries, holds
\* each word once, gives every word its number of occurrences among the tokens
\* (at least 1), and is the first 120 of the full ranking: it has 120 entries
\* when there are more words, and every word left out ranks after every entry.
C6_CappedExactCounts ==
    Analyzed =>
        /\ Len(wordFrequencies) <= MaxWords
        /\ Len(wordFrequencies) = Min(MaxWords, Cardinality(DistinctTokens(args.text)))
        /\ \A i, j \in 1..Len(wordFrequencies) :
               i < j => wordFrequencies[i].word # wordFrequencies[j].word
        /\ \A i \in 1..Len(wordFrequencies) :
               /\ wordFrequencies[i].frequency >= 1
               /\ wordFrequencies[i].frequency
                      = Occurrences(args.text, wordFrequencies[i].word)
        /\ \A w \in DistinctTokens(args.text) :
               (\A i \in 1..Len(wordFrequencies) : wordFrequencies[i].word # w)
                   => \A i \in 1..Len(wordFrequencies) :
                          RanksBefore(args.text, wordFrequencies[i].word, w)

\* C6, its case: the text has more than 120 distinct words, some of them
\* twice, and the list has 120 entries.
C6_Witness ==
    /\ Analyzed
    /\ Len(wordFrequencies) = MaxWords
    /\ wordFrequencies[1].frequency = 2
    /\ wordFrequencies[MaxWords].frequency = 1
    /\ Cardinality(DistinctTokens(args.text)) > MaxWords

----------------------------------------------------------------------------
(* Properties of validateOptions (SpecValidate) *)

Validated == pc = "validated"

\* the messages the rules ask for, on the options that are supplied
RuleMessages(options) ==
    (IF "width" \in DOMAIN options /\ (options.width < 100 \/ options.width > 5000)
     THEN {"width must be 100-5000 pixels"} ELSE {})
    \cup (IF "height" \in DOMAIN options
             /\ (options.height < 100 \/ options.height > 5000)
          THEN {"height must be 100-5000 pixels"} ELSE {})
    \cup (IF "fontSize" \in DOMAIN options
             /\ (options.fontSize.min < 8 * Unit \/ options.fontSize.min > 200 * Unit)
          THEN {"min font size must be 8-200 pixels"} ELSE {})
    \cup (IF "fontSize" \in DOMAIN options
             /\ (options.fontSize.max < 8 * Unit \/ options.fontSize.max > 200 * Unit)
          THEN {"max font size must be 8-200 pixels"} ELSE {})
    \cup (IF "fontSize" \in DOMAIN options
             /\ options.fontSize.min >= options.fontSize.max
          THEN {"min font size must be below max font size"} ELSE {})
    \cup (IF "theme" \in DOMAIN options
             /\ options.theme \notin {"default", "colorful", "warm", "cool",
                                      "nature", "business"}
          THEN {"unsupported theme"} ELSE {})

\* C9: validateOptions returns valid = false with the message of every rule a
\* supplied option violates (a width or height of 0 included), and valid = true
\* with no message exactly when no rule is violated.
C9_ValidExactlyWhenNoRuleViolated ==
    Validated =>
        /\ validation.valid = (RuleMessages(args.options) = {})
        /\ { validation.errors[k] : k \in 1..Len(validation.errors) }
               = RuleMessages(args.options)

----------------------------------------------------------------------------
(* Properties of what a call reports (Spec) *)

\* the words smartLayoutWords left out of its result
DroppedWords == Len(wordItems) - Len(layoutedWords)

\* generate has returned a path
GenerateReturned == pc = "done" /\ args.format = "svg" /\ ~ response.isError

\* C11: a run of generate that dropped words raises no error and returns
\* something a caller can tell from the return of a run that placed every word
\* and wrote the same file, which is that file's path and nothing else.
C11_DroppedWordsObservable ==
    (GenerateReturned /\ DroppedWords > 0) =>
        response # Returned(response.path)

----------------------------------------------------------------------------
(* generateSVG on its own *)

\* the characters of the words to escape: A & < > " ' ; and the letters of amp
EscapeChars == {65, 38, 60, 62, 34, 39, 59, 97, 109, 112}

\* A&B<C>
EscapeExample == << 65, 38, 66, 60, 67, 62 >>

EscapeTexts ==
    UNION { [1..k -> EscapeChars] : k \in 1..MaxEscapeLen } \cup {EscapeExample}

\* the layout of the one word t under the default options
OneWordLayout(t) ==
    { << LayoutOne(items[1], 0, << >>, defaultOptions).word >> :
        items \in prepareWordItems(<< [word |-> t, frequency |-> 1] >>,
                                   defaultOptions) }

\* generate at its call of generateSVG(layoutedWords, config)
InitEscape ==
    /\ pc = "render"
    /\ args \in [text : EscapeTexts, format : {"svg"}, options : {<< >>}]
    /\ config = defaultOptions
    /\ wordFrequencies = << [word |-> args.text, frequency |-> 1] >>
    /\ wordItems \in OneWordLayout(args.text)
    /\ sortedWords = << 1 >>
    /\ loopI = 1
    /\ occupiedAreas = << RecordedArea(wordItems[1], defaultOptions) >>
    /\ layoutedWords = << 1 >>
    /\ svgContent = << >>
    /\ fsDirs = {<< Slash >>}
    /\ fsFiles = << >>
    /\ finalPath = << >>
    /\ counter = 0
    /\ response = NoResponse
    /\ ran = {"analyze", "prepare", "layout"}
    /\ validation = << >>
    /\ generator = NewGenerator
    /\ raised = << >>
    /\ cleaner = NewCleaner
    /\ loopAngle = 0
    /\ angleList = << >>

SpecEscape == InitEscape /\ [][Render]_vars

----------------------------------------------------------------------------
(* Properties of generateSVG (SpecEscape) *)

Rendered == pc = "save"

\* the entity of a reserved character, the character itself otherwise
EntityOf(c) ==
    CASE c = 38 -> << 38, 97, 109, 112, 59 >>
      [] c = 60 -> << 38, 108, 116, 59 >>
      [] c = 62 -> << 38, 103, 116, 59 >>
      [] c = 34 -> << 38, 113, 117, 111, 116, 59 >>
      [] c = 39 -> << 38, 35, 51, 57, 59 >>
      [] OTHER  -> << c >>

\* every character replaced once, from left to right
RECURSIVE EscapedOnce(_)
EscapedOnce(text) ==
    IF text = << >> THEN << >>
    ELSE EntityOf(Head(text)) \o EscapedOnce(Tail(text))

\* an entity starts at position k of s
EntityStartsAt(s, k) ==
    \E c \in {38, 60, 62, 34, 39} :
        /\ k + Len(EntityOf(c)) - 1 <= Len(s)
        /\ SubSeq(s, k, k + Len(EntityOf(c)) - 1) = EntityOf(c)

\* no < > " ' and every & the start of an entity
NoBareReserved(s) ==
    \A k \in 1..Len(s) :
        /\ s[k] \notin {60, 62, 34, 39}
        /\ s[k] = 38 => EntityStartsAt(s, k)

\* C12: the text of every emitted <text> element is the word with each of
\* & < > " ' replaced by its entity exactly once and every other character
\* kept, so it holds no reserved character that is not escaped.
C12_EscapedExactlyOnce ==
    Rendered =>
        \A k \in 1..Len(svgContent.elements) :
            /\ svgContent.elements[k].text = EscapedOnce(LayoutedItems[k].text)
            /\ NoBareReserved(svgContent.elements[k].text)

\* C12, its case: A&B<C> is emitted as A&amp;B&lt;C&gt;
C12_Witness ==
    /\ Rendered
    /\ LayoutedItems[1].text = EscapeExample
    /\ svgContent.elements[1].text
           = << 65, 38, 97, 109, 112, 59, 66, 38, 108, 116, 59, 67, 38, 103, 116, 59 >>

----------------------------------------------------------------------------
(* Properties of the document of a request (Spec) *)

\* generateSVG has made the document of a request of format svg
SvgRendered == args.format = "svg" /\ "render" \in ran

\* the fill a request asks for: its backgroundColor, white when it gives none
RequestedFill ==
    IF "backgroundColor" \in DOMAIN args.options
    THEN args.options.backgroundColor
    ELSE "white"

\* C13: in the document of a request of format svg the background rectangle
\* is filled with the request's backgroundColor, and with white only when the
\* request gives none.
C13_BackgroundFromRequest ==
    SvgRendered => svgContent.rectFill = RequestedFill

----------------------------------------------------------------------------
(* saveFile on its own *)

\* '/o/a.svg'
AbsoluteOutputPath == << 47, 111, 47, 97, 46, 115, 118, 103 >>

\* the requested path and the numbered paths after it that can exist already
Candidates(p) ==
    {ResolvedPath(p)} \cup { NumberedPath(ResolvedPath(p), n) : n \in 1..(MaxTaken - 1) }

\* The disks before a save to p: some candidates are files, or the first
\* numbered path is a directory; what exists lies in directories that exist.
SaveDisks(p) ==
    { [ dirs  |-> {<< Slash >>}
                  \cup (IF taken = {} /\ asDir = {} THEN {}
                        ELSE Ancestors(dirname(ResolvedPath(p))))
                  \cup asDir,
        files |-> [f \in taken |-> "old"] ] :
        taken \in SUBSET Candidates(p),
        asDir \in {{}, {NumberedPath(ResolvedPath(p), 1)}} }

\* a disk of a file and a directory of one name is none
ProperDisks(p) == { d \in SaveDisks(p) : d.dirs \cap DOMAIN d.files = {} }

\* generate at its call of saveFile(svgContent, config.outputPath), and
\* MultiFormatWordCloudGenerator.generate at its try block, for the text 'a'
InitSave ==
    /\ args \in [ text : {<< 97 >>}, format : {"svg", "png"},
                  options : { "outputPath" :> DefaultOutputPath,
                              "outputPath" :> AbsoluteOutputPath } ]
    /\ \E d \in ProperDisks(IF args.format = "svg"
                            THEN SvgOutputPath(args.options.outputPath)
                            ELSE adjustOutputPath(args.options.outputPath, "png")) :
           fsDirs = d.dirs /\ fsFiles = d.files
    /\ IF args.format = "svg"
       THEN /\ pc = "save"
            /\ config = [MergeOptions(defaultOptions, args.options) EXCEPT
                            !.outputPath = SvgOutputPath(args.options.outputPath)]
            /\ wordFrequencies = analyzeWordFrequency(args.text)
            /\ wordItems \in OneWordLayout(args.text)
            /\ sortedWords = << 1 >>
            /\ loopI = 1
            /\ occupiedAreas = << RecordedArea(wordItems[1], config) >>
            /\ layoutedWords = << 1 >>
            /\ svgContent = generateSVG(wordItems, config)
            /\ ran = {"analyze", "prepare", "layout", "render"}
       ELSE /\ pc = "multi"
            /\ config = [MergeOptions(multiDefaultOptions,
                                      ("format" :> "png") @@ args.options) EXCEPT
                            !.outputPath = adjustOutputPath(args.options.outputPath, "png")]
            /\ wordFrequencies = << >>
            /\ wordItems = << >>
            /\ sortedWords = << >>
            /\ loopI = 0
            /\ occupiedAreas = << >>
            /\ layoutedWords = << >>
            /\ svgContent = << >>
            /\ ran = {}
    /\ finalPath = << >>
    /\ counter = 0
    /\ response = NoResponse
    /\ validation = << >>
    /\ generator = NewGenerator
    /\ raised = << >>
    /\ cleaner = NewCleaner
    /\ loopAngle = 0
    /\ angleList = << >>

NextSave ==
    \/ SaveEnsureDir
    \/ SaveProbeTaken
    \/ SaveProbeFree
    \/ SaveWrite
    \/ MultiRest

SpecSave == InitSave /\ [][NextSave]_vars

----------------------------------------------------------------------------
(* Properties of saveFile (SpecSave) *)

\* the save has returned
Saved == pc = "done" /\ ~ response.isError

\* the path asked for, absolute
RequestedPath == ResolvedPath(config.outputPath)

\* what existed before the save, seen after it: everything but the file written
ExistedBefore == fsDirs \cup (DOMAIN fsFiles \ {response.path})

\* the k-th path of the sequence path, name_1.ext, name_2.ext, ...
PathNumber(k) == IF k = 0 THEN RequestedPath ELSE NumberedPath(RequestedPath, k)

\* the first path of the sequence that did not exist
FirstUnused ==
    PathNumber(Lowest({ k \in 0..(MaxTaken + 1) : PathNumber(k) \notin ExistedBefore }))

\* C14: a save writes the requested path when nothing exists there and
\* otherwise the first of name_1.ext, name_2.ext, ... that does not exist, it
\* returns the path it wrote, and no step of it changes or removes a file that
\* exists.
C14_NeverOverwrites ==
    /\ [](Saved =>
            /\ response.path = FirstUnused
            /\ response.path \in DOMAIN fsFiles)
    /\ [][\A f \in DOMAIN fsFiles :
              f \in DOMAIN fsFiles' /\ fsFiles'[f] = fsFiles[f]]_vars

\* C14, its case: the requested path and name_1.ext existed, the save wrote
\* name_2.ext and the two old files are as they were.
C14_Witness ==
    /\ Saved
    /\ args.format = "svg"
    /\ response.path = NumberedPath(RequestedPath, 2)
    /\ fsFiles[RequestedPath] = "old"
    /\ fsFiles[NumberedPath(RequestedPath, 1)] = "old"
    /\ fsFiles[response.path] = svgContent

----------------------------------------------------------------------------
(* Two requests in saveFile at once.  The handler of the server is async and *)
(* the server awaits no request before it takes the next, so the calls of    *)
(* saveFile interleave at their awaits.  Here pc, svgContent, finalPath,     *)
(* counter and response hold one value for each request.                     *)

Requests == {1, 2}

\* the word of a request: a for the first, b for the second
RequestWord(r) == << 96 + r >>

\* the documents of the two requests
RequestDocuments ==
    { [r \in Requests |-> generateSVG(layouts[r], defaultOptions)] :
        layouts \in [Requests -> UNION { OneWordLayout(RequestWord(r)) : r \in Requests }] }

\* two calls of generate, with one outputPath, at saveFile
InitRace ==
    /\ pc = [r \in Requests |-> "save"]
    /\ args \in [ text : {<< 97, 32, 98 >>}, format : {"svg"},
                  options : { "outputPath" :> DefaultOutputPath,
                              "outputPath" :> AbsoluteOutputPath } ]
    /\ config = [MergeOptions(defaultOptions, args.options) EXCEPT
                    !.outputPath = SvgOutputPath(args.options.outputPath)]
    /\ \E d \in ProperDisks(config.outputPath) :
           fsDirs = d.dirs /\ fsFiles = d.files
    /\ svgContent \in { docs \in RequestDocuments :
                          \A r \in Requests :
                              docs[r].elements[1].text = RequestWord(r) }
    /\ wordFrequencies = << >>
    /\ wordItems = << >>
    /\ sortedWords = << >>
    /\ loopI = 0
    /\ occupiedAreas = << >>
    /\ layoutedWords = << >>
    /\ finalPath = [r \in Requests |-> << >>]
    /\ counter = [r \in Requests |-> 0]
    /\ response = [r \in Requests |-> NoResponse]
    /\ ran = {"analyze", "prepare", "layout", "render"}
    /\ validation = << >>
    /\ generator = NewGenerator
    /\ raised = << >>
    /\ cleaner = NewCleaner
    /\ loopAngle = 0
    /\ angleList = << >>

\* saveFile of request r up to its first await fs.pathExists
RaceEnsureDir(r) ==
    /\ pc[r] = "save"
    /\ fsDirs' = fsDirs \cup Ancestors(dirname(ResolvedPath(config.outputPath)))
    /\ finalPath' = [finalPath EXCEPT ![r] = ResolvedPath(config.outputPath)]
    /\ counter' = [counter EXCEPT ![r] = 1]
    /\ pc' = [pc EXCEPT ![r] = "probe"]
    /\ UNCHANGED << args, config, wordFrequencies, wordItems, sortedWords, loopI,
                    occupiedAreas, layoutedWords, svgContent, fsFiles, response,
                    ran, validation,
                    generator, raised, cleaner,
                    loopAngle, angleList >>

\* while (await fs.pathExists(finalPath)) of request r: the path exists
RaceProbeTaken(r) ==
    /\ pc[r] = "probe"
    /\ pathExists(finalPath[r])
    /\ finalPath' = [finalPath EXCEPT
                        ![r] = NumberedPath(ResolvedPath(config.outputPath), counter[r])]
    /\ counter' = [counter EXCEPT ![r] = counter[r] + 1]
    /\ UNCHANGED << pc, args, config, wordFrequencies, wordItems, sortedWords,
                    loopI, occupiedAreas, layoutedWords, svgContent, fsDirs,
                    fsFiles, response, ran, validation,
                    generator, raised, cleaner,
                    loopAngle, angleList >>

\* while (await fs.pathExists(finalPath)) of request r: the path is free
RaceProbeFree(r) ==
    /\ pc[r] = "probe"
    /\ ~ pathExists(finalPath[r])
    /\ pc' = [pc EXCEPT ![r] = "write"]
    /\ UNCHANGED << args, config, wordFrequencies, wordItems, sortedWords, loopI,
                    occupiedAreas, layoutedWords, svgContent, fsDirs, fsFiles,
                    finalPath, counter, response, ran, validation,
                    generator, raised, cleaner,
                    loopAngle, angleList >>

\* await fs.writeFile(finalPath, content) of request r; return finalPath
RaceWrite(r) ==
    /\ pc[r] = "write"
    /\ fsFiles' = (finalPath[r] :> svgContent[r]) @@ fsFiles
    /\ response' = [response EXCEPT ![r] = Returned(finalPath[r])]
    /\ pc' = [pc EXCEPT ![r] = "done"]
    /\ UNCHANGED << args, config, wordFrequencies, wordItems, sortedWords, loopI,
                    occupiedAreas, layoutedWords, svgContent, fsDirs, finalPath,
                    counter, ran, validation,
                    generator, raised, cleaner,
                    loopAngle, angleList >>

NextRace ==
    \E r \in Requests :
        \/ RaceEnsureDir(r)
        \/ RaceProbeTaken(r)
        \/ RaceProbeFree(r)
        \/ RaceWrite(r)

SpecRace == InitRace /\ [][NextRace]_vars

----------------------------------------------------------------------------
(* Properties of two concurrent saves (SpecRace) *)

BothSaved == \A r \in Requests : pc[r] = "done"

\* C15: when two requests with one output path have both saved, the paths
\* they return differ and each path holds the document of its request: no
\* write has replaced the file of the other request.
C15_ConcurrentSavesDistinct ==
    BothSaved =>
        /\ response[1].path # response[2].path
        /\ \A r \in Requests :
               /\ response[r].path \in DOMAIN fsFiles
               /\ fsFiles[response[r].path] = svgContent[r]

----------------------------------------------------------------------------
(* Two calls of generate on the one WordCloudGenerator of the server.        *)
(* generate has no await before saveFile, so a call runs from its merge to   *)
(* its generateSVG without another call in between; the calls meet in the    *)
(* fields of the instance.  Here pc, args, config, wordFrequencies,          *)
(* wordItems, sortedWords, occupiedAreas, layoutedWords, svgContent,         *)
(* response and ran hold one value for each request.                         *)

\* '/o/a.png'
PngOutputPath == << 47, 111, 47, 97, 46, 112, 110, 103 >>

SharedCalls ==
    [ text    : { << 32 >>, << 97 >>, << 97, 32, 20013 >> },
      format  : {"svg"},
      options : { << >>,
                  "fontSize" :> FontRange(16, 23),
                  "outputPath" :> PngOutputPath,
                  ("wordGap" :> 40) @@ ("height" :> 300) } ]

InitShared ==
    /\ pc = [r \in Requests |-> "call"]
    /\ args \in [Requests -> SharedCalls]
    /\ config = [r \in Requests |-> << >>]
    /\ wordFrequencies = [r \in Requests |-> << >>]
    /\ wordItems = [r \in Requests |-> << >>]
    /\ sortedWords = [r \in Requests |-> << >>]
    /\ loopI = 0
    /\ occupiedAreas = [r \in Requests |-> << >>]
    /\ layoutedWords = [r \in Requests |-> << >>]
    /\ svgContent = [r \in Requests |-> << >>]
    /\ fsDirs = {<< Slash >>}
    /\ fsFiles = << >>
    /\ finalPath = << >>
    /\ counter = 0
    /\ response = [r \in Requests |-> NoResponse]
    /\ ran = [r \in Requests |-> {}]
    /\ validation = << >>
    /\ generator = NewGenerator
    /\ raised = << >>
    /\ cleaner = NewCleaner
    /\ loopAngle = 0
    /\ angleList = << >>

\* the items behind the references
ItemsAt(items, refs) == [k \in 1..Len(refs) |-> items[refs[k]]]

\* what request r holds when its layout is l and its document is made
SharedLaidOut(r, l, cfg) ==
    /\ wordItems' = [wordItems EXCEPT ![r] = l.wordItems]
    /\ sortedWords' = [sortedWords EXCEPT ![r] = SortByFontSize(l.wordItems)]
    /\ occupiedAreas' = [occupiedAreas EXCEPT ![r] = l.occupiedAreas]
    /\ layoutedWords' = [layoutedWords EXCEPT ![r] = l.layoutedWords]
    /\ svgContent' = [svgContent EXCEPT
                         ![r] = generateSVG(ItemsAt(l.wordItems, l.layoutedWords), cfg)]

\* generate of request r from its merge to its call of saveFile
SharedGenerate(r) ==
    /\ pc[r] = "call"
    /\ LET merged == SpreadMerge(generator, args[r].options)
           cfg    == [merged.config EXCEPT
                         !.outputPath = SvgOutputPath(merged.config.outputPath)]
           wf     == analyzeWordFrequency(args[r].text)
       IN  /\ generator' = merged.generator
           /\ config' = [config EXCEPT ![r] = cfg]
           /\ wordFrequencies' = [wordFrequencies EXCEPT ![r] = wf]
           /\ IF NoWordsFound(wf)
              THEN /\ response' = [response EXCEPT
                                      ![r] = Thrown("generation failed: no valid words")]
                   /\ ran' = [ran EXCEPT ![r] = {"analyze"}]
                   /\ pc' = [pc EXCEPT ![r] = "done"]
                   /\ UNCHANGED << wordItems, sortedWords, occupiedAreas,
                                   layoutedWords, svgContent,
                    loopAngle, angleList >>
              ELSE /\ \E items \in prepareWordItems(wf, cfg) :
                          SharedLaidOut(r, smartLayoutWords(items, cfg), cfg)
                   /\ ran' = [ran EXCEPT
                                 ![r] = {"analyze", "prepare", "layout", "render"}]
                   /\ pc' = [pc EXCEPT ![r] = "save"]
                   /\ response' = response
    /\ UNCHANGED << args, loopI, fsDirs, fsFiles, finalPath, counter, validation,
                    raised, cleaner,
                    loopAngle, angleList >>

NextShared == \E r \in Requests : SharedGenerate(r)

SpecShared == InitShared /\ [][NextShared]_vars

----------------------------------------------------------------------------
(* Properties of two calls on one instance (SpecShared) *)

\* the configuration of a call that runs alone on a new instance
AloneConfig(call) ==
    [MergeOptions(defaultOptions, call.options) EXCEPT
        !.outputPath = SvgOutputPath(MergeOptions(defaultOptions, call.options).outputPath)]

\* the layouts of a call that runs alone on a new instance
AloneLayouts(call) ==
    { smartLayoutWords(items, AloneConfig(call)) :
        items \in prepareWordItems(analyzeWordFrequency(call.text), AloneConfig(call)) }

\* what request r holds of its layout
LayoutOf(r) ==
    [ wordItems     |-> wordItems[r],
      occupiedAreas |-> occupiedAreas[r],
      layoutedWords |-> layoutedWords[r] ]

\* C16: the fields of the shared instance, defaultOptions with its nested
\* objects and the colour themes, stay as they were made, and a call that has
\* run holds the configuration, the ranking and the layout it has when it runs
\* alone, whatever the other call has done.
C16_CallsDoNotInterfere ==
    /\ generator = NewGenerator
    /\ \A r \in Requests :
           pc[r] # "call" =>
               /\ config[r] = AloneConfig(args[r])
               /\ wordFrequencies[r] = analyzeWordFrequency(args[r].text)
               /\ pc[r] = "save" => LayoutOf(r) \in AloneLayouts(args[r])

\* C16, its case: both calls have laid out two words, the first under a font
\* range and an output path of its own, the second under the defaults.
C16_Witness ==
    /\ \A r \in Requests : pc[r] = "save" /\ Len(layoutedWords[r]) = 2
    /\ args[1].options = ("fontSize" :> FontRange(16, 23))
    /\ args[2].options = << >>
    /\ config[2].fontSize = defaultOptions.fontSize
    /\ config[1].fontSize # config[2].fontSize


(***************************************************************************)
(* The request handler of the server: one tool call, the stages it runs    *)
(* and the way an error of a stage travels to the response.  A message is  *)
(* the sequence of its parts, outermost first: `${prefix}: ${message}` is  *)
(* << prefix >> \o message.                                                *)
(***************************************************************************)

\* A catch that throws its prefix alone.
RethrownBare(prefix, message) == << prefix >>

\* throw new Error(`${prefix}: ${error instanceof Error ? error.message : String(error)}`)
Rethrown(prefix, message) == << prefix >> \o message

\* the catch blocks of the server's handlers: the prefix each one puts before
\* the message, and the messages it throws again as they are
ServerCatches ==
    [ handleExtractText             |-> [prefix |-> "text extraction failed", through |-> {}],
      handleGenerateWordCloud       |-> [prefix |-> "word cloud generation failed", through |-> {}],
      handleCreateWordCloudFromFile |-> [prefix |-> "word cloud from file failed", through |-> {}] ]

\* the catch blocks of WordCloudGenerator
GeneratorCatches ==
    [ generate |-> [prefix |-> "word cloud generation failed", through |-> {}],
      saveFile |-> [prefix |-> "saving the file failed", through |-> {}] ]

\* the catch blocks of MultiFormatWordCloudGenerator
MultiCatches ==
    [ multiGenerate  |-> [prefix |-> "multi-format generation failed", through |-> {}],
      generateBitmap |-> [prefix |-> "bitmap generation failed", through |-> {}],
      multiSaveFile  |-> [prefix |-> "saving the file failed", through |-> {}] ]

\* the catch blocks of TextExtractor
ExtractorCatches ==
    [ extractText    |-> [prefix |-> "file parsing failed", through |-> {}],
      extractFromTXT |-> [prefix |-> "TXT read failed", through |-> {}],
      extractFromPDF |-> [prefix  |-> "PDF parsing failed",
                          through |-> {"no extractable text"}] ]

Catches == ServerCatches @@ GeneratorCatches @@ MultiCatches @@ ExtractorCatches

\* error.message.includes(part)
Includes(message, part) == \E i \in 1..Len(message) : message[i] = part

\* the handler the switch calls for a tool name
HandlerOf(name) ==
    CASE name = "extract_text_from_file"      -> "handleExtractText"
      [] name = "generate_wordcloud"          -> "handleGenerateWordCloud"
      [] name = "create_wordcloud_from_file"  -> "handleCreateWordCloudFromFile"

ToolNames ==
    { "extract_text_from_file", "generate_wordcloud", "create_wordcloud_from_file" }

ToolCalls ==
    [ name : ToolNames \cup {"no_such_tool"}, format : {"svg", "png"},
      fileType : {"txt", "pdf"} ]

InitCall ==
    /\ pc = "request"
    /\ args \in ToolCalls
    /\ fsDirs = {<< Slash >>}
    /\ fsFiles = << >>
    /\ Idle

\* throw new Error(message) below the try blocks `frames`, innermost first
Raise(stage, message, frames) ==
    /\ raised' = [ stage |-> stage, message |-> << message >>,
                   error |-> << message >>, frames |-> frames ]
    /\ pc' = "thrown"
    /\ UNCHANGED << ran, response,
                    loopAngle, angleList >>

\* the stage has run to its end
Passed(stage, next) ==
    /\ ran' = ran \cup {stage}
    /\ pc' = next
    /\ UNCHANGED << raised, response,
                    loopAngle, angleList >>

\* the switch on the tool name, inside the handler's try
Dispatch ==
    /\ pc = "request"
    /\ IF args.name \in ToolNames
       THEN Passed("dispatch", "arguments")
       ELSE Raise("dispatch", "unknown tool", << >>)
    /\ UNCHANGED << args, config, wordFrequencies, wordItems, sortedWords, loopI,
                    occupiedAreas, layoutedWords, svgContent, fsDirs, fsFiles,
                    finalPath, counter, validation, generator, cleaner,
                    loopAngle, angleList >>

\* the argument checks of the three handlers, before their try
CheckArguments ==
    /\ pc = "arguments"
    /\ \/ Passed("arguments",
                 IF args.name = "generate_wordcloud" THEN "clean" ELSE "fileInfo")
       \/ \E m \in IF args.name = "generate_wordcloud"
                   THEN {"text argument invalid", "text must not be empty"}
                   ELSE {"file path argument invalid", "file type argument invalid"} :
              Raise("arguments", m, << >>)
    /\ UNCHANGED << args, config, wordFrequencies, wordItems, sortedWords, loopI,
                    occupiedAreas, layoutedWords, svgContent, fsDirs, fsFiles,
                    finalPath, counter, validation, generator, cleaner,
                    loopAngle, angleList >>

\* await this.textExtractor.getFileInfo(resolvedPath) and the two checks of
\* its result; fs.stat may reject
GetFileInfo ==
    /\ pc = "fileInfo"
    /\ \/ Passed("fileInfo", "extractText")
       \/ \E m \in {"file does not exist", "unsupported file type", "EIO"} :
              Raise("fileInfo", m, << HandlerOf(args.name) >>)
    /\ UNCHANGED << args, config, wordFrequencies, wordItems, sortedWords, loopI,
                    occupiedAreas, layoutedWords, svgContent, fsDirs, fsFiles,
                    finalPath, counter, validation, generator, cleaner,
                    loopAngle, angleList >>

\* await this.textExtractor.extractText(resolvedPath, fileType): its checks
\* before its try, the extractor of the file type, the check of the text
ExtractText ==
    /\ pc = "extractText"
    /\ LET handler   == HandlerOf(args.name)
           extractor == IF args.fileType = "txt" THEN "extractFromTXT"
                                                 ELSE "extractFromPDF"
       IN  \/ Passed("extractText", "clean")
           \/ \E m \in {"file does not exist", "unsupported file type",
                        "file too large", "EIO"} :
                  Raise("extractText", m, << handler >>)
           \/ \E m \in {"EIO", IF args.fileType = "txt" THEN "TXT file is empty"
                                                        ELSE "no extractable text"} :
                  Raise("extractText", m, << extractor, "extractText", handler >>)
           \/ Raise("extractText", "no valid text in the file",
                    << "extractText", handler >>)
    /\ UNCHANGED << args, config, wordFrequencies, wordItems, sortedWords, loopI,
                    occupiedAreas, layoutedWords, svgContent, fsDirs, fsFiles,
                    finalPath, counter, validation, generator, cleaner,
                    loopAngle, angleList >>

\* this.contentCleaner.clean(text) and the check of what is left;
\* handleExtractText returns the cleaned text with no check
CleanText ==
    /\ pc = "clean"
    /\ \/ /\ args.name # "extract_text_from_file"
          /\ Passed("clean", "generate")
       \/ /\ args.name = "extract_text_from_file"
          /\ ran' = ran \cup {"clean"}
          /\ pc' = "done"
          /\ response' = Returned(<< >>)
          /\ UNCHANGED raised
       \/ /\ args.name # "extract_text_from_file"
          /\ Raise("clean", "no valid content after cleaning",
                   << HandlerOf(args.name) >>)
    /\ UNCHANGED << args, config, wordFrequencies, wordItems, sortedWords, loopI,
                    occupiedAreas, layoutedWords, svgContent, fsDirs, fsFiles,
                    finalPath, counter, validation, generator, cleaner,
                    loopAngle, angleList >>

\* await this.wordCloudGenerator.generate(cleanedText, ...): the empty
\* ranking, and what the file system rejects in saveFile
RunGenerate ==
    /\ pc = "generate"
    /\ args.format = "svg"
    /\ LET handler == HandlerOf(args.name)
       IN  \/ /\ ran' = ran \cup {"generate"}
              /\ pc' = "done"
              /\ response' = Returned(SvgOutputPath(DefaultOutputPath))
              /\ UNCHANGED raised
           \/ Raise("generate", "no valid words", << "generate", handler >>)
           \/ Raise("save", "EIO", << "saveFile", "generate", handler >>)
    /\ UNCHANGED << args, config, wordFrequencies, wordItems, sortedWords, loopI,
                    occupiedAreas, layoutedWords, svgContent, fsDirs, fsFiles,
                    finalPath, counter, validation, generator, cleaner,
                    loopAngle, angleList >>

\* await this.multiFormatGenerator.generate(cleanedText, ...): validateConfig
\* before its try, the empty ranking, the canvas and the encoder in
\* generateBitmap, and what the file system rejects in saveFile
RunMultiGenerate ==
    /\ pc = "generate"
    /\ args.format # "svg"
    /\ LET handler == HandlerOf(args.name)
       IN  \/ /\ ran' = ran \cup {"generate"}
              /\ pc' = "done"
              /\ response' = Returned(adjustOutputPath(DefaultOutputPath, args.format))
              /\ UNCHANGED raised
           \/ Raise("validate", "width out of range", << handler >>)
           \/ Raise("generate", "no valid words", << "multiGenerate", handler >>)
           \/ \E m \in {"canvas failed", "unsupported format"} :
                  Raise("render", m, << "generateBitmap", "multiGenerate", handler >>)
           \/ Raise("save", "EIO",
                    << "multiSaveFile", "generateBitmap", "multiGenerate", handler >>)
    /\ UNCHANGED << args, config, wordFrequencies, wordItems, sortedWords, loopI,
                    occupiedAreas, layoutedWords, svgContent, fsDirs, fsFiles,
                    finalPath, counter, validation, generator, cleaner,
                    loopAngle, angleList >>

\* the catch of the innermost try block around the error: it throws a new
\* error, or the same one
Rethrow ==
    /\ pc = "thrown"
    /\ raised.frames # << >>
    /\ LET catch == Catches[Head(raised.frames)]
       IN  raised' = [raised EXCEPT
                         !.error  = IF \E part \in catch.through : Includes(@, part)
                                    THEN @
                                    ELSE Rethrown(catch.prefix, @),
                         !.frames = Tail(@)]
    /\ UNCHANGED << pc, args, config, wordFrequencies, wordItems, sortedWords,
                    loopI, occupiedAreas, layoutedWords, svgContent, fsDirs,
                    fsFiles, finalPath, counter, response, ran, validation,
                    generator, cleaner,
                    loopAngle, angleList >>

\* the catch of the request handler: the response with isError: true
HandlerCatch ==
    /\ pc = "thrown"
    /\ raised.frames = << >>
    /\ response' = Thrown(Rethrown("error", raised.error))
    /\ pc' = "done"
    /\ UNCHANGED << args, config, wordFrequencies, wordItems, sortedWords, loopI,
                    occupiedAreas, layoutedWords, svgContent, fsDirs, fsFiles,
                    finalPath, counter, ran, validation, generator, raised, cleaner,
                    loopAngle, angleList >>

NextCall ==
    \/ Dispatch
    \/ CheckArguments
    \/ GetFileInfo
    \/ ExtractText
    \/ CleanText
    \/ RunGenerate
    \/ RunMultiGenerate
    \/ Rethrow
    \/ HandlerCatch

SpecCall == InitCall /\ [][NextCall]_vars


CleanChars == {25105, 20204, 20154, 105, 115, 83, 32}

CleanTexts(n) == UNION { [1..k -> CleanChars] : k \in 0..n }

\* [一-龥]
IsChinese(c) == c >= 19968 /\ c <= 40869

\* [a-zA-Z]
IsLetter(c) == (c >= 65 /\ c <= 90) \/ (c >= 97 /\ c <= 122)

\* token.toLowerCase()
ToLowerCase(w) == [i \in 1..Len(w) |-> IF w[i] >= 65 /\ w[i] <= 90 THEN w[i] + 32 ELSE w[i]]

\* clean, step 2: every character outside the kept classes becomes a space
KeptChar(c) ==
    IF IsChinese(c) \/ IsLetter(c) \/ (c >= 48 /\ c <= 57) \/ IsSpace(c) \/ c = 45
    THEN c ELSE 32

\* where the run of characters of the class of s[k] that starts at k ends
RunEnd(s, k, InClass(_)) ==
    CHOOSE e \in k..Len(s) :
        /\ \A i \in k..e : InClass(s[i])
        /\ e = Len(s) \/ ~ InClass(s[e + 1])

\* tokenize from position k: a run of Chinese characters is one token (the
\* match of the run is met first and every single character of it overlaps
\* it and is no longer), a run of two letters or more is one token in lower
\* case, and a single letter matches no pattern
RECURSIVE TokenizeFrom(_, _)
TokenizeFrom(s, k) ==
    IF k > Len(s) THEN << >>
    ELSE IF IsChinese(s[k])
         THEN LET e == RunEnd(s, k, IsChinese)
              IN  << SubSeq(s, k, e) >> \o TokenizeFrom(s, e + 1)
         ELSE IF IsLetter(s[k])
              THEN LET e == RunEnd(s, k, IsLetter)
                   IN  (IF e > k THEN << ToLowerCase(SubSeq(s, k, e)) >> ELSE << >>)
                       \o TokenizeFrom(s, e + 1)
              ELSE TokenizeFrom(s, k + 1)

tokenize(text) == TokenizeFrom(text, 1)

\* meaningfulChineseChars, its members among CleanChars
meaningfulChineseChars == { << 20154 >> }

\* const commonStopWords of shouldKeepWord, its members made of CleanChars
commonStopWords == { << 25105 >>, << 105, 115 >> }

\* shouldKeepWord(word), which reads no field of the instance but
\* meaningfulChineseChars
shouldKeepWord(c, word) ==
    IF Len(word) = 0 THEN FALSE
    ELSE IF Len(word) = 1
         THEN IF word \in meaningfulChineseChars THEN TRUE
              ELSE IF word[1] >= 48 /\ word[1] <= 57 THEN TRUE
              ELSE IF IsLetter(word[1]) THEN ToLowerCase(word) \in { << 97 >>, << 105 >> }
              ELSE FALSE
         ELSE IF word \in commonStopWords \/ ToLowerCase(word) \in commonStopWords
              THEN FALSE
              ELSE IF Len(word) > 15 THEN FALSE
              ELSE Len(word) >= 2

\* clean(text): the words kept, which clean joins with one space
CleanedWords(c, text) ==
    SelectSeq(tokenize([i \in 1..Len(text) |-> KeptChar(text[i])]),
              LAMBDA w : shouldKeepWord(c, w))

clean(c, text) == JoinTokens(CleanedWords(c, text))

\* the arrays of one word the two operations are called with: 我们, 人人,
\* 'Si ' and ' '
StopWordInputs ==
    { << 25105, 20204 >>, << 20154, 20154 >>, << 83, 105, 32 >>, << 32 >> }

\* /[一-龥]/.test(trimmedWord)
HasChinese(w) == \E i \in 1..Len(w) : IsChinese(w[i])

InitClean ==
    /\ pc = "idle"
    /\ args = << >>
    /\ fsDirs = {<< Slash >>}
    /\ fsFiles = << >>
    /\ Idle

\* addStopWords([word])
AddStopWords(word) ==
    /\ LET trimmedWord == Trim(word)
       IN  cleaner' =
               IF Len(trimmedWord) = 0 THEN cleaner
               ELSE IF HasChinese(trimmedWord)
                    THEN [cleaner EXCEPT !.chineseStopWords = @ \cup {trimmedWord}]
                    ELSE [cleaner EXCEPT
                             !.englishStopWords = @ \cup {ToLowerCase(trimmedWord)}]
    /\ pc' = "added"
    /\ args' = [words |-> << word >>]
    /\ response' = NoResponse
    /\ UNCHANGED << config, wordFrequencies, wordItems, sortedWords, loopI,
                    occupiedAreas, layoutedWords, svgContent, fsDirs, fsFiles,
                    finalPath, counter, ran, validation, generator, raised,
                    loopAngle, angleList >>

\* removeStopWords([word])
RemoveStopWords(word) ==
    /\ LET trimmedWord == Trim(word)
       IN  cleaner' =
               IF Len(trimmedWord) = 0 THEN cleaner
               ELSE IF HasChinese(trimmedWord)
                    THEN [cleaner EXCEPT !.chineseStopWords = @ \ {trimmedWord}]
                    ELSE [cleaner EXCEPT
                             !.englishStopWords = @ \ {ToLowerCase(trimmedWord)}]
    /\ pc' = "removed"
    /\ args' = [words |-> << word >>]
    /\ response' = NoResponse
    /\ UNCHANGED << config, wordFrequencies, wordItems, sortedWords, loopI,
                    occupiedAreas, layoutedWords, svgContent, fsDirs, fsFiles,
                    finalPath, counter, ran, validation, generator, raised,
                    loopAngle, angleList >>

\* clean(text); the words of what it returned are kept in sortedWords
Clean(text) ==
    /\ pc' = "cleaned"
    /\ args' = [text |-> text]
    /\ sortedWords' = CleanedWords(cleaner, text)
    /\ response' = [text |-> clean(cleaner, text)]
    /\ UNCHANGED << config, wordFrequencies, wordItems, loopI, occupiedAreas,
                    layoutedWords, svgContent, fsDirs, fsFiles, finalPath,
                    counter, ran, validation, generator, raised, cleaner,
                    loopAngle, angleList >>

NextClean ==
    \/ \E word \in StopWordInputs : AddStopWords(word)
    \/ \E word \in StopWordInputs : RemoveStopWords(word)
    \/ \E text \in CleanTexts(MaxCleanLen) : Clean(text)

SpecClean == InitClean /\ [][NextClean]_vars


\* C18: whatever words were added and removed, no word of what clean returns
\* is in the Chinese or the English stop-word set as it then is.
C18_NoCurrentStopWord ==
    pc = "cleaned" =>
        \A i \in 1..Len(sortedWords) :
            /\ sortedWords[i] \notin cleaner.chineseStopWords
            /\ sortedWords[i] \notin cleaner.englishStopWords


----------------------------------------------------------------------------
(* prepareWordItems under a font range of one size (SpecPrepare) *)

\* C19: under a font range with min equal to max, the fontSize stored in every
\* item of prepareWordItems is exactly that size, whether the frequencies are
\* equal or not.
C19_OneSizeRangeGivesThatSize ==
    (Prepared /\ config.fontSize.min = config.fontSize.max) =>
        \A k \in 1..Len(wordItems) :
            wordItems[k].fontSize * Unit = config.fontSize.min


(***************************************************************************)
(* smartLayoutWords on its own: generate at its call of smartLayoutWords,  *)
(* for texts of the words a, b and a word of twenty ideographs, which at   *)
(* the smallest font size is wider than half the default canvas.           *)
(***************************************************************************)

WideWord == [k \in 1..20 |-> 20013]

LayoutWords == { << 97 >>, << 98 >>, WideWord }

LayoutTexts ==
    { JoinTokens(ts) : ts \in UNION { [1..k -> LayoutWords] : k \in 1..MaxLayoutTokens } }

LayoutOptions == { << >>, "wordGap" :> 40, "wordGap" :> 300 }

InitLayout ==
    /\ pc = "layout"
    /\ args \in [ text : LayoutTexts, format : {"svg"}, options : LayoutOptions ]
    /\ config = [MergeOptions(defaultOptions, args.options) EXCEPT
                    !.outputPath = SvgOutputPath(DefaultOutputPath)]
    /\ wordFrequencies = analyzeWordFrequency(args.text)
    /\ wordItems \in prepareWordItems(wordFrequencies, config)
    /\ sortedWords = << >>
    /\ loopI = 0
    /\ occupiedAreas = << >>
    /\ layoutedWords = << >>
    /\ svgContent = << >>
    /\ fsDirs = {<< Slash >>}
    /\ fsFiles = << >>
    /\ finalPath = << >>
    /\ counter = 0
    /\ response = NoResponse
    /\ ran = {"analyze", "prepare"}
    /\ validation = << >>
    /\ generator = NewGenerator
    /\ raised = << >>
    /\ cleaner = NewCleaner
    /\ loopAngle = 0
    /\ angleList = << >>

NextLayout == LayoutBegin \/ LayoutStep \/ LayoutEnd

SpecLayout == InitLayout /\ [][NextLayout]_vars


\* the centre of the canvas
CenterX == FloorDiv(config.width * Unit, 2)

CenterY == FloorDiv(config.height * Unit, 2)

\* the candidates of the search for a word, each named by its pass of the
\* outer loop and its angle index
SpiralOrder(word) ==
    UNION { { << k, i >> : i \in 0..(NumAngles(RadiusAt(word, k)) - 1) } :
              k \in Passes(word, config) }

CandidateOf(word, p) == Candidate(word, CenterX, CenterY, RadiusAt(word, p[1]), p[2])

\* the candidate lies inside the margin and its padded box overlaps no region
Acceptable(word, p) ==
    /\ ~ OutsideMargin(word, CandidateOf(word, p), config)
    /\ \A k \in 1..Len(occupiedAreas) :
           ~ isOverlapping(PaddedArea(CandidateOf(word, p).x, CandidateOf(word, p).y,
                                      word, SearchGap(word, config)),
                           occupiedAreas[k])

\* p comes before q: a lower radius, or the same radius and a lower angle index
ComesBefore(p, q) == p[1] < q[1] \/ (p[1] = q[1] /\ p[2] < q[2])

FirstAcceptable(word) ==
    CHOOSE p \in SpiralOrder(word) :
        /\ Acceptable(word, p)
        /\ \A q \in SpiralOrder(word) : ComesBefore(q, p) => ~ Acceptable(word, q)

\* the pass of the loop of smartLayoutWords for an item that is not the first
SpiralPass == pc = "loop" /\ loopI >= 1 /\ loopI' = loopI + 1

\* C20: an item that is not the first is placed at the first candidate, by
\* radius and then by angle index, that lies inside the margin and whose padded
\* box overlaps no recorded region, its coordinates clamped as those of every
\* placed item are; with no such candidate it is left out, nothing is recorded
\* for it, no error is raised, and the loop goes on to the items that remain.
C20_FirstAcceptableCandidate ==
    /\ [](pc \in {"render", "save"} => loopI = Len(sortedWords))
    /\ [][SpiralPass =>
            LET ref  == sortedWords[loopI + 1]
                word == wordItems[ref]
            IN  IF \E p \in SpiralOrder(word) : Acceptable(word, p)
                THEN LET c == CandidateOf(word, FirstAcceptable(word))
                     IN  /\ layoutedWords' = Append(layoutedWords, ref)
                         /\ wordItems'[ref].x = Clamp(c.x, word.width, config.width, config)
                         /\ wordItems'[ref].y = Clamp(c.y, word.height, config.height, config)
                ELSE /\ layoutedWords' = layoutedWords
                     /\ occupiedAreas' = occupiedAreas
                     /\ response' = response
                     /\ pc' = "loop"]_vars

\* C20, its case: of three items the second was left out and the third was
\* placed, at a candidate that is not the first of the order.
C20_Witness ==
    /\ pc = "render"
    /\ Len(sortedWords) = 3
    /\ layoutedWords = << sortedWords[1], sortedWords[3] >>
    /\ LET word == wordItems[sortedWords[3]]
           c    == CandidateOf(word, << 0, 0 >>)
       IN  word.x # Clamp(c.x, word.width, config.width, config)


(***************************************************************************)
(* MultiFormatWordCloudGenerator.prepareWordItems, for the ranked lists    *)
(* and the configurations of SpecPrepare.                                  *)
(***************************************************************************)

\* Math.pow(Math.log(n / d + 1) / Math.log(2), 0.8), times RootScale, rounded
\* down: row d, column n + 1, for 0 <= n <= d <= 6
MultiScaleTable ==
   <<
      << 0, 10000 >>,
      << 0, 6511, 10000 >>,
      << 0, 4948, 7833, 10000 >>,
      << 0, 4038, 6511, 8426, 10000 >>,
      << 0, 3435, 5609, 7328, 8764, 10000 >>,
      << 0, 3003, 4948, 6511, 7833, 8982, 10000 >> >>

\* the font size in 1/Unit, from a range in 1/Unit; no cap at 80% of the range
multiCalculateFontSize(frequency, minFreq, maxFreq, fontSizeRange) ==
    IF maxFreq = minFreq
    THEN FloorDiv(fontSizeRange.min + fontSizeRange.max, 2)
    ELSE LET enhancedScale == MultiScaleTable[maxFreq - minFreq][frequency - minFreq + 1]
         IN  fontSizeRange.min
             + FloorDiv(enhancedScale * (fontSizeRange.max - fontSizeRange.min), RootScale)

\* selectColor(colors, index, frequency, maxFreq)
selectColor(colors, index, frequency, maxFreq) ==
    IF 10 * frequency > 8 * maxFreq
    THEN colors[(index % Min(5, Len(colors))) + 1]
    ELSE IF 10 * frequency > 5 * maxFreq
         THEN colors[(index % Min(10, Len(colors))) + 1]
         ELSE colors[(index % Len(colors)) + 1]

\* The item of wordFrequencies[k] on the palette `colors`; the call is
\* this.selectColor(colors, index, wordFrequencies.length, item.frequency).
MultiPrepareItem(wf, k, cfg, colors, angle) ==
    LET item       == wf[k]
        fontSize   == multiCalculateFontSize(item.frequency, MinFrequency(wf),
                                             MaxFrequency(wf), cfg.fontSize)
        dimensions == estimateTextDimensions(item.word, fontSize, angle)
    IN  [ text      |-> item.word,
          frequency |-> item.frequency,
          fontSize  |-> MathRound(fontSize),
          color     |-> selectColor(colors, k - 1, Len(wf), item.frequency),
          angle     |-> angle,
          x         |-> 0,
          y         |-> 0,
          width     |-> dimensions.width,
          height    |-> dimensions.height ]

multiPrepareWordItems(wf, cfg, colors) ==
    IF Len(wf) = 0 THEN { << >> }
    ELSE LET choices == [k \in 1..Len(wf) |->
                            calculateAngle(k - 1, cfg.angleRange, cfg.angleStep)]
             all     == UNION {choices[k] : k \in 1..Len(wf)}
         IN  { [k \in 1..Len(wf) |-> MultiPrepareItem(wf, k, cfg, colors, angles[k])] :
                 angles \in {a \in [1..Len(wf) -> all] :
                                \A k \in 1..Len(wf) : a[k] \in choices[k]} }

\* MultiFormatWordCloudGenerator.prepareWordItems on the ranked list, the
\* configuration and the palette WordCloudGenerator.prepareWordItems is given
MultiPrepare ==
    /\ pc = "prepare"
    /\ wordItems' \in multiPrepareWordItems(wordFrequencies, config,
                                            getThemeColors(config.theme))
    /\ ran' = ran \cup {"prepare"}
    /\ pc' = "layout"
    /\ UNCHANGED << args, config, wordFrequencies, sortedWords, loopI,
                    occupiedAreas, layoutedWords, svgContent, fsDirs, fsFiles,
                    finalPath, counter, response, validation, generator, raised,
                    cleaner,
                    loopAngle, angleList >>

SpecMultiPrepare == InitPrepare /\ [][MultiPrepare]_vars


\* C21: every item of MultiFormatWordCloudGenerator.prepareWordItems has the
\* font size and the colour that WordCloudGenerator.prepareWordItems gives the
\* same entry of the same ranked list under the same configuration and palette.
C21_SameSizeAndColour ==
    Prepared =>
        \A k \in 1..Len(wordItems) :
            /\ wordItems[k].fontSize
                   = PrepareItem(wordFrequencies, k, config, wordItems[k].angle).fontSize
            /\ wordItems[k].color
                   = PrepareItem(wordFrequencies, k, config, wordItems[k].angle).color


----------------------------------------------------------------------------
(* The final coordinates of the placed items (SpecLayout) *)

\* the items of layoutedWords that are there so far
PlacedItems == { wordItems[layoutedWords[k]] : k \in 1..Len(layoutedWords) }

\* the bounds of the clamp on one axis, in 1/Unit
ClampLow == config.wordGap * Unit

ClampHigh(size, canvas) == canvas * Unit - size - config.wordGap * Unit

\* C22, as the specification states it: every placed item has
\* wordGap <= x <= canvasWidth - width - wordGap and
\* wordGap <= y <= canvasHeight - height - wordGap.
C22_InsideClampInterval ==
    pc = "loop" =>
        \A w \in PlacedItems :
            /\ ClampLow <= w.x /\ w.x <= ClampHigh(w.width, config.width)
            /\ ClampLow <= w.y /\ w.y <= ClampHigh(w.height, config.height)

\* C22, amended: every placed item has
\* wordGap <= x <= max(wordGap, canvasWidth - width - wordGap) and
\* wordGap <= y <= max(wordGap, canvasHeight - height - wordGap): inside the
\* interval when there is one, at wordGap when the item and twice the gap
\* do not fit the canvas.
C22_InsideClampIntervalOrAtGap ==
    pc = "loop" =>
        \A w \in PlacedItems :
            /\ ClampLow <= w.x
            /\ w.x <= Max(ClampLow, ClampHigh(w.width, config.width))
            /\ ClampLow <= w.y
            /\ w.y <= Max(ClampLow, ClampHigh(w.height, config.height))

\* C22, its case: under a wordGap of 40 the wide word, which with the gap on
\* both sides does not fit the canvas, is at x = wordGap, and another item is
\* placed inside its interval on both axes.
C22_Witness ==
    /\ pc = "loop"
    /\ config.wordGap = 40
    /\ \E w \in PlacedItems :
           /\ w.text = WideWord
           /\ ClampHigh(w.width, config.width) < ClampLow
           /\ w.x = ClampLow
    /\ \E w \in PlacedItems :
           /\ w.text # WideWord
           /\ ClampLow <= w.x /\ w.x <= ClampHigh(w.width, config.width)
           /\ ClampLow <= w.y /\ w.y <= ClampHigh(w.height, config.height)


(***************************************************************************)
(* isOverlapping on its own, for regions on a small grid.                  *)
(***************************************************************************)

Regions ==
    [ x : 0..MaxCoord, y : 0..MaxCoord, width : 0..(MaxCoord - 1),
      height : 0..(MaxCoord - 1) ]

InitOverlap ==
    /\ pc = "call"
    /\ args \in [ area1 : Regions, area2 : Regions ]
    /\ fsDirs = {<< Slash >>}
    /\ fsFiles = << >>
    /\ Idle

\* this.isOverlapping(area1, area2)
Overlap ==
    /\ pc = "call"
    /\ response' = [overlapping |-> isOverlapping(args.area1, args.area2)]
    /\ pc' = "done"
    /\ UNCHANGED << args, config, wordFrequencies, wordItems, sortedWords, loopI,
                    occupiedAreas, layoutedWords, svgContent, fsDirs, fsFiles,
                    finalPath, counter, ran, validation, generator, raised,
                    cleaner,
                    loopAngle, angleList >>

SpecOverlap == InitOverlap /\ [][Overlap]_vars


\* the grid points of a region, its edges and corners among them
PointsOf(area) ==
    { << px, py >> \in (0..(2 * MaxCoord)) \X (0..(2 * MaxCoord)) :
        /\ area.x <= px /\ px <= area.x + area.width
        /\ area.y <= py /\ py <= area.y + area.height }

\* C23: isOverlapping(a, b) is true exactly when the two regions, edges and
\* corners included, have a point in common, which is when none of
\* a.right < b.left, b.right < a.left, a.bottom < b.top, b.bottom < a.top
\* holds; and it gives the same for (b, a).
C23_OverlapIsClosedIntersection ==
    pc = "done" =>
        /\ response.overlapping
               <=> (PointsOf(args.area1) \cap PointsOf(args.area2) # {})
        /\ response.overlapping = isOverlapping(args.area2, args.area1)

\* C23, its case: two regions of positive size that have one corner in
\* common, and nothing else, are found overlapping.
C23_Witness ==
    /\ pc = "done"
    /\ args.area1.width > 0 /\ args.area1.height > 0
    /\ args.area2.width > 0 /\ args.area2.height > 0
    /\ Cardinality(PointsOf(args.area1) \cap PointsOf(args.area2)) = 1
    /\ response.overlapping


(***************************************************************************)
(* selectColorInternal on its own: every palette, the ranks 0 to MaxRank,  *)
(* the frequencies 1 to MaxCount.                                          *)
(***************************************************************************)

InitColor ==
    /\ pc = "call"
    /\ args \in { a \in [ colors : { colorThemes[t] : t \in DOMAIN colorThemes },
                          index : 0..MaxRank, frequency : 1..MaxCount,
                          maxFreq : 1..MaxCount ] :
                    a.frequency <= a.maxFreq }
    /\ fsDirs = {<< Slash >>}
    /\ fsFiles = << >>
    /\ Idle

\* this.selectColorInternal(colors, index, item.frequency, maxFreq)
SelectColor ==
    /\ pc = "call"
    /\ response' = [color |-> selectColorInternal(args.colors, args.index,
                                                  args.frequency, args.maxFreq)]
    /\ pc' = "done"
    /\ UNCHANGED << args, config, wordFrequencies, wordItems, sortedWords, loopI,
                    occupiedAreas, layoutedWords, svgContent, fsDirs, fsFiles,
                    finalPath, counter, ran, validation, generator, raised,
                    cleaner,
                    loopAngle, angleList >>

SpecColor == InitColor /\ [][SelectColor]_vars


\* the first n entries of a palette
FirstEntries(colors, n) == { colors[k] : k \in 1..Min(n, Len(colors)) }

\* C24: a word of rank 0 to 4 gets one of the first 5 entries of the palette, a
\* word of rank 5 to 14 or of a frequency above half the maximum gets one of
\* the first 10, and every other word gets palette[rank mod paletteLength].
C24_ColourBuckets ==
    pc = "done" =>
        IF args.index < 5
        THEN response.color \in FirstEntries(args.colors, 5)
        ELSE IF args.index < 15 \/ 2 * args.frequency > args.maxFreq
             THEN response.color \in FirstEntries(args.colors, 10)
             ELSE response.color = args.colors[(args.index % Len(args.colors)) + 1]


(***************************************************************************)
(* calculateAngle on its own, the loop of generateAngles taken one         *)
(* iteration at a time: the ranks 0 to MaxRank, ranges whose min is below, *)
(* at and above their max, and steps that are negative, zero and positive. *)
(***************************************************************************)

\* most angles the loop of generateAngles pushes in the model
MaxAngles == 8

AngleMins == {-45, 0, 30, 60}
AngleMaxs == {-60, 0, 45, 60}
AngleSteps == {-15, 0, 15, 45}

InitAngle ==
    /\ pc = "call"
    /\ args \in [ index : 0..MaxRank,
                  angleRange : [min : AngleMins, max : AngleMaxs],
                  angleStep : AngleSteps ]
    /\ fsDirs = {<< Slash >>}
    /\ fsFiles = << >>
    /\ Idle

\* calculateAngle: const angles = this.generateAngles(angleRange, angleStep),
\* and in generateAngles: const angles = []; let angle = angleRange.min
CallGenerateAngles ==
    /\ pc = "call"
    /\ angleList' = << >>
    /\ loopAngle' = args.angleRange.min
    /\ pc' = "angles"
    /\ UNCHANGED << args, config, wordFrequencies, wordItems, sortedWords, loopI,
                    occupiedAreas, layoutedWords, svgContent, fsDirs, fsFiles,
                    finalPath, counter, response, ran, validation, generator,
                    raised, cleaner >>

\* angle <= angleRange.max: angles.push(angle); angle += angleStep
PushAngle ==
    /\ pc = "angles"
    /\ loopAngle <= args.angleRange.max
    /\ Len(angleList) < MaxAngles
    /\ angleList' = Append(angleList, loopAngle)
    /\ loopAngle' = loopAngle + args.angleStep
    /\ UNCHANGED << pc, args, config, wordFrequencies, wordItems, sortedWords,
                    loopI, occupiedAreas, layoutedWords, svgContent, fsDirs,
                    fsFiles, finalPath, counter, response, ran, validation,
                    generator, raised, cleaner >>

\* the loop ends: return angles.length > 0 ? angles : [0]
ReturnAngles ==
    /\ pc = "angles"
    /\ ~ (loopAngle <= args.angleRange.max)
    /\ angleList' = IF Len(angleList) > 0 THEN angleList ELSE << 0 >>
    /\ pc' = "pick"
    /\ UNCHANGED << args, config, wordFrequencies, wordItems, sortedWords, loopI,
                    occupiedAreas, layoutedWords, svgContent, fsDirs, fsFiles,
                    finalPath, counter, response, ran, validation, generator,
                    raised, cleaner, loopAngle >>

\* calculateAngle returns by the rank of the word
PickAngle ==
    /\ pc = "pick"
    /\ response' \in { [angle |-> a] : a \in AngleChoices(args.index, angleList) }
    /\ pc' = "done"
    /\ UNCHANGED << args, config, wordFrequencies, wordItems, sortedWords, loopI,
                    occupiedAreas, layoutedWords, svgContent, fsDirs, fsFiles,
                    finalPath, counter, ran, validation, generator, raised,
                    cleaner, loopAngle, angleList >>

NextAngle == CallGenerateAngles \/ PushAngle \/ ReturnAngles \/ PickAngle

SpecAngle == InitAngle /\ [][NextAngle]_vars


\* the configured grid: angleRange.min stepped by angleStep up to angleRange.max
ConfiguredGrid ==
    { a \in args.angleRange.min..args.angleRange.max :
        /\ args.angleStep > 0
        /\ (a - args.angleRange.min) % args.angleStep = 0 }

SmallGrid == { a \in ConfiguredGrid : Abs(a) <= 30 }

\* C25: calculateAngle gives a word of rank 0 to 4 the angle 0, a word of rank
\* 5 to 14 an angle of the configured grid with |angle| <= 30, or 0 when the
\* grid has no such angle, and a word of rank 15 or more a member of the grid.
C25_AngleByRank ==
    pc = "done" =>
        IF args.index < 5 THEN response.angle = 0
        ELSE IF args.index < 15
             THEN IF SmallGrid = {} THEN response.angle = 0
                                    ELSE response.angle \in SmallGrid
             ELSE response.angle \in ConfiguredGrid

\* C25, amended: as above, but a word of rank 15 or more gets 0 when the
\* configured grid is empty (angleRange.min above angleRange.max).
C25_AngleByRankOrZero ==
    pc = "done" =>
        IF args.index < 5 THEN response.angle = 0
        ELSE IF args.index < 15
             THEN IF SmallGrid = {} THEN response.angle = 0
                                    ELSE response.angle \in SmallGrid
             ELSE IF ConfiguredGrid = {} THEN response.angle = 0
                                         ELSE response.angle \in ConfiguredGrid

\* a word of rank 15 or more got 0 from an empty grid
C25_Witness ==
    /\ pc = "done"
    /\ args.index >= 15
    /\ args.angleRange.min > args.angleRange.max
    /\ ConfiguredGrid = {}
    /\ response.angle = 0

\* C29: generateAngles terminates and returns a non-empty list: every
\* iteration of its loop moves the loop variable toward angleRange.max, which
\* alone ends the loop, and the list returned has an entry.
C29_GenerateAnglesEnds ==
    /\ [](pc = "pick" => Len(angleList) > 0)
    /\ [][(pc = "angles" /\ pc' = "angles") => loopAngle' > loopAngle]_vars


(***************************************************************************)
(* estimateTextDimensions on its own: texts of Latin letters, digits,      *)
(* accented Latin, kana and Chinese characters, whole and fractional font  *)
(* sizes, the angle 0 and a rotation.                                      *)
(***************************************************************************)

\* longest text measured alone, in characters
MaxMeasureLen == 2

\* a, 5, e with acute accent, hiragana a, the Chinese character zhong
MeasureChars == {97, 53, 233, 12354, 20013}

MeasureTexts == UNION { [1..k -> MeasureChars] : k \in 1..MaxMeasureLen }

\* font sizes in 1/Unit: 16 px, 20 px and 20 2/3 px
MeasureSizes == {16 * Unit, 20 * Unit, 2480}

InitMeasure ==
    /\ pc = "call"
    /\ args \in [text : MeasureTexts, fontSize : MeasureSizes, angle : {0, 30}]
    /\ fsDirs = {<< Slash >>}
    /\ fsFiles = << >>
    /\ Idle

\* this.estimateTextDimensions(item.word, fontSize, angle)
Measure ==
    /\ pc = "call"
    /\ response' = estimateTextDimensions(args.text, args.fontSize, args.angle)
    /\ pc' = "done"
    /\ UNCHANGED << args, config, wordFrequencies, wordItems, sortedWords, loopI,
                    occupiedAreas, layoutedWords, svgContent, fsDirs, fsFiles,
                    finalPath, counter, ran, validation, generator, raised,
                    cleaner, loopAngle, angleList >>

SpecMeasure == InitMeasure /\ [][Measure]_vars


\* the Basic Latin block, which holds the digits
InBasicLatin(c) == c <= 127

\* the advance the specification gives a character
SpecifiedAdvance(c, fontSize) ==
    IF InBasicLatin(c) THEN FloorDiv(fontSize * 6, 10) ELSE fontSize

\* C26: for angle 0, estimateTextDimensions returns height = 1.2 * fontSize
\* and width = the sum of the advances, where every character outside the
\* Basic Latin/digit range contributes fontSize and every other character
\* 0.6 * fontSize.
C26_WidthByScript ==
    (pc = "done" /\ args.angle = 0) =>
        /\ response.height = FloorDiv(args.fontSize * 12, 10)
        /\ response.width =
               SumSeq([k \in 1..Len(args.text) |->
                          SpecifiedAdvance(args.text[k], args.fontSize)])


(***************************************************************************)
(* What smartLayoutWords leaves alone.                                     *)
(***************************************************************************)

\* an item without its position
Unpositioned(item) ==
    [ text |-> item.text, frequency |-> item.frequency,
      fontSize |-> item.fontSize, color |-> item.color, angle |-> item.angle,
      width |-> item.width, height |-> item.height ]

\* C27: smartLayoutWords changes only the fields x and y of the items it is
\* given: their other fields, the order of the input sequence and the width
\* and height of the canvas in the config stay as they were, whether an item
\* is placed or dropped.
C27_OnlyPositionsChange ==
    [][ /\ Len(wordItems') = Len(wordItems)
        /\ \A k \in 1..Len(wordItems) :
               Unpositioned(wordItems'[k]) = Unpositioned(wordItems[k])
        /\ config'.width = config.width
        /\ config'.height = config.height ]_vars

\* the loop has ended with an item placed away from where it began and an
\* item dropped
C27_Witness ==
    /\ pc = "loop"
    /\ loopI = Len(sortedWords)
    /\ loopI > 0
    /\ \E k \in 1..Len(layoutedWords) : wordItems[layoutedWords[k]].x # 0
    /\ \E ref \in 1..Len(wordItems) :
           \A k \in 1..Len(layoutedWords) : layoutedWords[k] # ref


(***************************************************************************)
(* prepareWordItems followed by the sort of smartLayoutWords.              *)
(***************************************************************************)

SpecPrepareSort == InitPrepare /\ [][Prepare \/ LayoutBegin]_vars

\* C28: for a font range with min <= max the stored font size does not
\* decrease with the frequency, so prepareWordItems emits the items of a
\* ranked list in non-increasing order of font size and the sort of
\* smartLayoutWords leaves them in their rank order.
C28_SortKeepsRankOrder ==
    config.fontSize.min <= config.fontSize.max =>
        /\ pc \in {"layout", "loop"} =>
               \A j, k \in 1..Len(wordItems) :
                   /\ wordFrequencies[j].frequency >= wordFrequencies[k].frequency
                          => wordItems[j].fontSize >= wordItems[k].fontSize
                   /\ j <= k => wordItems[j].fontSize >= wordItems[k].fontSize
        /\ pc = "loop" => sortedWords = [k \in 1..Len(wordItems) |-> k]

\* three items were sorted, the first two of different frequencies and one
\* stored font size, the third smaller
C28_Witness ==
    /\ pc = "loop"
    /\ Len(sortedWords) = 3
    /\ wordFrequencies[1].frequency > wordFrequencies[2].frequency
    /\ wordItems[1].fontSize = wordItems[2].fontSize
    /\ wordItems[3].fontSize < wordItems[2].fontSize
    /\ sortedWords = << 1, 2, 3 >>


(***************************************************************************)
(* The output path of WordCloudGenerator.generate: paths built of a name,  *)
(* the extensions .png and .svg and the separator.                         *)
(***************************************************************************)

\* most parts a path is built of
MaxPathParts == 3

\* a, .png, .svg, / and the directory a.png/
PathParts ==
    { << 97 >>, << Dot, 112, 110, 103 >>, SvgExt, << Slash >>,
      << 97, Dot, 112, 110, 103, Slash >> }

RECURSIVE JoinParts(_)
JoinParts(ps) == IF ps = << >> THEN << >> ELSE Head(ps) \o JoinParts(Tail(ps))

PathInputs ==
    { JoinParts(ps) : ps \in UNION { [1..k -> PathParts] : k \in 1..MaxPathParts } }

\* generate(text, {outputPath}) for the text 'a'
InitPath ==
    /\ pc = "call"
    /\ args \in [ text : {<< 97 >>}, format : {"svg"},
                  options : { "outputPath" :> p : p \in PathInputs } ]
    /\ fsDirs = {<< Slash >>}
    /\ fsFiles = << >>
    /\ Idle

SpecPath == InitPath /\ [][Generate]_vars


\* a path without its final extension
WithoutExtension(p) == SubSeq(p, 1, Len(p) - Len(extname(p)))

\* C30: the path generate hands to saveFile ends in .svg and differs from the
\* outputPath it was given only in its final extension.
C30_OnlyFinalExtensionReplaced ==
    pc = "prepare" =>
        /\ EndsWith(config.outputPath, SvgExt)
        /\ config.outputPath = WithoutExtension(args.options.outputPath) \o SvgExt

====
